---- MODULE Spec2Model ----
(***************************************************************************)
(* A model of fogfish/stream: the S3 file system facade (FileSystem), its  *)
(* write descriptor (writer: io.Pipe + background Upload goroutine), its   *)
(* read descriptor (reader: lazy GetObject), the directory descriptor      *)
(* (dd.readAll pagination) and the lazy sequence cursor (internal/seq).    *)
(*                                                                         *)
(* Strings are sequences of one-character strings, so that slicing and     *)
(* prefix tests are computed as the Go code computes them.                 *)
(***************************************************************************)
EXTENDS Integers, Sequences, FiniteSets, TLC

\* ------------------------------------------------------------------ bounds

\* longest path the caller passes to Open
MaxPathLen == 3
\* bytes the caller offers to one WriteStream in total
MaxBytes == 2
\* calls (Write, Close, Cancel) the caller makes on one WriteStream
MaxOps == 3
\* GetObject calls a behaviour may issue
MaxGet == 2

\* ------------------------------------------------------------------ strings

Alphabet == {"/", ".", "a"}

Byte == {1, 2}

RECURSIVE SeqsUpTo(_, _)
SeqsUpTo(S, n) ==
  IF n = 0 THEN {<<>>}
  ELSE LET shorter == SeqsUpTo(S, n - 1)
       IN  shorter \cup {Append(s, x) : s \in {t \in shorter : Len(t) = n - 1}, x \in S}

\* Go: s[i:] with a 0-based i
From(s, i) == SubSeq(s, i + 1, Len(s))

\* Go: s[:i] with a 0-based i
Upto(s, i) == SubSeq(s, 1, i)

\* index (0-based) of the first "/" of name, Len(name) when there is none
RECURSIVE SlashAt(_, _)
SlashAt(name, i) ==
  IF i < Len(name) /\ name[i + 1] # "/" THEN SlashAt(name, i + 1) ELSE i

\* io/fs.ValidPath: "." or slash-separated elements, none empty, "." or ".."
RECURSIVE ValidElems(_)
ValidElems(name) ==
  LET i == SlashAt(name, 0)
      elem == Upto(name, i)
  IN  IF elem = <<>> \/ elem = <<".">> \/ elem = <<".", ".">> THEN FALSE
      ELSE IF i = Len(name) THEN TRUE
      ELSE ValidElems(From(name, i + 1))

ValidPath(name) == IF name = <<".">> THEN TRUE ELSE ValidElems(name)

IsValidFile(path) ==
  IF Len(path) = 0 THEN FALSE
  ELSE IF path[Len(path)] = "/" THEN FALSE
  ELSE IF path[1] = "/" THEN ValidPath(From(path, 1))
  ELSE ValidPath(path)

IsValidPath(path) ==
  IF path = <<"/">> THEN TRUE
  ELSE LET p == IF Len(path) # 0 /\ path[Len(path)] = "/"
                THEN Upto(path, Len(path) - 1) ELSE path
       IN  IF Len(p) = 0 THEN FALSE
           ELSE IF p[1] = "/" THEN ValidPath(From(p, 1))
           ELSE ValidPath(p)

\* a directory path that must begin with "/"
IsValidDirRooted(path) ==
  IF path = <<"/">> THEN TRUE
  ELSE IF Len(path) = 0 \/ path[1] # "/" \/ path[Len(path)] # "/" THEN FALSE
  ELSE ValidPath(SubSeq(path, 2, Len(path) - 1))

IsValidDir(path) ==
  IF path = <<"/">> THEN TRUE
  ELSE IF Len(path) = 0 \/ path[Len(path)] # "/" THEN FALSE
  ELSE LET p == Upto(path, Len(path) - 1)
       IN  IF Len(p) > 0 /\ p[1] = "/" THEN ValidPath(From(p, 1))
           ELSE ValidPath(p)

\* the object key of a path: the leading "/" stripped
s3Key(path) == IF path[1] = "/" THEN From(path, 1) ELSE path

\* ------------------------------------------------------------------ errors

Err(kind, op, path) == [kind |-> kind, op |-> op, path |-> path]

NilErr == Err("nil", "", <<>>)

ErrNotExist == Err("fs.ErrNotExist", "", <<>>)

ErrClosedPipe == Err("io.ErrClosedPipe", "", <<>>)

ErrService == Err("service", "", <<>>)

\* the validation of a file path accepting every valid path
RequireValidPathForFile(ctx, path) ==
  IF IsValidPath(path) THEN NilErr ELSE Err("fs.ErrInvalid", ctx, path)

\* fs.PathError{Op, Path, Err: fs.ErrInvalid} of the RequireValid* wrappers
RequireValidFile(ctx, path) ==
  IF IsValidFile(path) THEN NilErr ELSE Err("fs.ErrInvalid", ctx, path)

RequireValidPath(ctx, path) ==
  IF IsValidPath(path) THEN NilErr ELSE Err("fs.ErrInvalid", ctx, path)

RequireValidDir(ctx, path) ==
  IF IsValidDir(path) THEN NilErr ELSE Err("fs.ErrInvalid", ctx, path)

\* ------------------------------------------------------------------ state

VARIABLES
  store,    \* the bucket: a function from the keys present to object bodies
  writer,   \* the writer[T] descriptor returned by Create
  pipe,     \* the io.Pipe of the writer
  bg,       \* the goroutine spawned by writer.lazyOpen and its Upload call
  caller,   \* the calling goroutine: the call in progress and where it is
  reader,   \* the descriptor returned by Open
  api,      \* calls issued to the storage collaborator, by kind
  obs,      \* what the caller has observed: returns and bytes (history)
  dd,       \* the directory descriptor of ReadDir and its readAll loop
  seq,      \* the Seq cursor over a listing
  hist,     \* what the consumer of a Seq has observed (history)
  spool,    \* a Spool, its two file systems and the run of ForEach or ForEachPath
  lfs       \* a local file system and the last Copy on it

vars == <<store, writer, pipe, bg, caller, reader, api, obs, dd, seq, hist, spool, lfs>>

NoWriter ==
  [created |-> FALSE, path |-> <<>>, r |-> FALSE, w |-> FALSE, wg |-> 0,
   upload |-> "", err |-> NilErr]

NoPipe == [wclosed |-> FALSE, rclosed |-> FALSE]

NoBg ==
  [pc |-> "none", body |-> <<>>, id |-> "", aborted |-> FALSE, ret |-> "none",
   unsynced |-> FALSE]

IdleCaller ==
  [pc |-> "idle", op |-> "", arg |-> <<>>, buf |-> <<>>, n |-> 0, perr |-> NilErr,
   ops |-> 0, offered |-> 0, failedAtCall |-> FALSE]

\* opened, released, cancelled and closed are history: the bodies the stream got
\* from GetObject, the body Close and cancel calls it made, and whether a Close
\* has closed a body
NoReader ==
  [kind |-> "none", path |-> <<>>, r |-> FALSE, body |-> <<>>, can |-> FALSE,
   size |-> 0, mode |-> "", opened |-> 0, released |-> 0, cancelled |-> 0,
   closed |-> FALSE]

NoApi ==
  [get |-> 0, upload |-> 0, abort |-> 0, list |-> 0, head |-> 0, delete |-> 0,
   copy |-> 0]

\* the CopyObject request last sent
NoReq == [Bucket |-> <<>>, Key |-> <<>>, CopySource |-> <<>>]

NoObs ==
  [op |-> "", err |-> NilErr, n |-> 0, path |-> <<>>, failedAtCall |-> FALSE,
   written |-> <<>>, closeNil |-> FALSE, cancelInFlight |-> FALSE,
   read |-> <<>>, eof |-> FALSE, got |-> [err |-> FALSE, coded |-> FALSE, code |-> "none"],
   raced |-> FALSE, abortId |-> "", abortInFlight |-> FALSE, closeCalled |-> FALSE,
   mode |-> "", req |-> NoReq, target |-> <<>>, ctx |-> 0]

NoDir ==
  [pc |-> "none", path |-> <<>>, lslimit |-> 0, StartAfter |-> <<>>, seq |-> <<>>,
   val |-> [KeyCount |-> 0, Token |-> FALSE], calls |-> 0,
   glob |-> FALSE, pattern |-> <<>>, reg |-> <<>>, names |-> <<>>]

NoSeq ==
  [q |-> [Prefix |-> <<>>, StartAfter |-> <<>>, MaxKeys |-> 0],
   at |-> 0, items |-> <<>>, stream |-> TRUE, err |-> NilErr]

NoPrev == [bounded |-> FALSE, err |-> "", prefix |-> <<>>, k |-> 0, out |-> <<>>]

NoHist ==
  [phase |-> "none", run |-> 0, bounded |-> FALSE, continued |-> FALSE,
   calls |-> 0, steps |-> 0, out |-> <<>>, eos |-> FALSE, op |-> "", ret |-> FALSE,
   err |-> "", saved |-> <<>>, prev |-> NoPrev]

\* spool.go, lines 42-50: the values of the options
immutable == 0

mutable == 1

strict == 0

skiperror == 1

\* reader and writer are the files of the two file systems (on the writer, the
\* outputs whose Close returned nil); applied, removed and failed are history:
\* the paths f was called with, the sources removed, the steps that failed
NoSpool ==
  [pc |-> "none", kind |-> "", mutable |-> immutable, strict |-> strict,
   pattern |-> <<>>, re |-> <<>>, reader |-> {}, writer |-> {},
   paths |-> <<>>, at |-> 0, path |-> <<>>, rerr |-> "", ret |-> "",
   applied |-> <<>>, removed |-> {}, failed |-> {}]

\* source, target and err are those of the last Copy; copyFailed and closeFailed
\* tell what io.Copy and the Close of the target did in it (history)
NoLfs ==
  [files |-> {}, op |-> "", source |-> <<>>, target |-> <<>>, err |-> NilErr,
   copyFailed |-> FALSE, closeFailed |-> FALSE]

\* a call on a descriptor begins: the last return is no longer the latest event
Enter == [obs EXCEPT !.op = ""]

\* the caller's return from a call
Return(o, op, path, n, err, failed) ==
  [o EXCEPT !.op = op, !.path = path, !.n = n, !.err = err, !.failedAtCall = failed]

\* ------------------------------------------------------------------ writer

\* a writer made with its pipe already open
newWriterOpened(path) ==
  [NoWriter EXCEPT !.created = TRUE, !.path = path, !.r = TRUE, !.w = TRUE]

\* newWriter: the descriptor of the path, with no pipe, goroutine or error
newWriter(path) == [NoWriter EXCEPT !.created = TRUE, !.path = path]

\* FileSystem.Create
Create(path) ==
  /\ caller.pc = "idle"
  /\ ~writer.created
  /\ LET e == RequireValidFile("create", path)
     IN  /\ writer' = IF e = NilErr THEN newWriter(path) ELSE writer
         /\ obs' = Return(obs, "Create", path, 0, e, FALSE)
  /\ UNCHANGED <<spool, lfs, store, pipe, bg, caller, reader, api, dd, seq, hist>>

\* What a read of fd.err by the caller may yield. The goroutine writes fd.err with
\* no lock; until the caller has synchronised with it (a pipe operation that saw
\* the reader side closed, or wg.Wait) the read races with the write and may
\* still yield nil.
ErrView == IF bg.unsynced THEN {NilErr, writer.err} ELSE {writer.err}

\* the same for fd.upload, read by Cancel
UploadView == IF bg.unsynced THEN {"", writer.upload} ELSE {writer.upload}

\* the identifier the collaborator assigns to the upload
UploadID == "u1"

\* writer.lazyOpen: io.Pipe(), wg.Add(1) and the goroutine, which calls Upload with
\* the pipe's read side as body
writerLazyOpen ==
  /\ writer' = [writer EXCEPT !.r = TRUE, !.w = TRUE, !.wg = 1]
  /\ pipe' = NoPipe
  /\ bg' = [NoBg EXCEPT !.pc = "upload", !.id = UploadID]
  /\ api' = [api EXCEPT !.upload = @ + 1]

\* writer.Write opening the pipe whenever one of its sides is missing or closed
lazyOpenAgain(fd, p) == ~fd.r \/ ~fd.w \/ p.wclosed \/ p.rclosed

\* writer.Write, line 309: `if fd.r == nil && fd.w == nil`
lazyOpenNeeded(fd, p) == ~fd.r /\ ~fd.w

\* a caller's read of fd.err that is not ordered after the goroutine's write of it
RacyRead == bg.unsynced /\ bg.ret = "err"

\* writer.Write, entry: the first call opens the pipe and spawns the goroutine
writerWrite(p) ==
  /\ caller.pc = "idle"
  /\ writer.created
  /\ caller.ops < MaxOps
  /\ caller.offered + Len(p) <= MaxBytes
  /\ IF lazyOpenNeeded(writer, pipe)
     THEN writerLazyOpen
     ELSE UNCHANGED <<writer, pipe, bg, api>>
  /\ caller' = [caller EXCEPT !.pc = "w313", !.op = "Write", !.arg = p, !.buf = p,
                              !.n = 0, !.perr = NilErr, !.ops = @ + 1,
                              !.offered = @ + Len(p),
                              !.failedAtCall = (bg.ret = "err")]
  /\ obs' = Enter
  /\ UNCHANGED <<spool, lfs, store, reader, dd, seq, hist>>

\* what Write returns once fd.w.Write has returned (n, perr) and fd.err reads ferr
WriteResultNoRecheck(n, perr, ferr) == <<n, perr>>

WriteResult(n, perr, ferr) == IF ferr # NilErr THEN <<0, ferr>> ELSE <<n, perr>>

\* the caller's return from Write: the bytes accepted are the first n of p
WriteReturn(res) ==
  /\ obs' = [Return(obs, "Write", <<>>, res[1], res[2], caller.failedAtCall)
               EXCEPT !.written = @ \o Upto(caller.arg, res[1]),
                      !.raced = @ \/ RacyRead]
  /\ caller' = [caller EXCEPT !.pc = "idle"]

\* writer.Write, `if fd.err != nil { return 0, fd.err }` before the pipe write
writerWriteCheck ==
  /\ caller.pc = "w313"
  /\ \E ferr \in ErrView :
       IF ferr # NilErr
       THEN WriteReturn(<<0, ferr>>)
       ELSE /\ caller' = [caller EXCEPT !.pc = "wpipe"]
            /\ obs' = [obs EXCEPT !.raced = @ \/ RacyRead]
  /\ UNCHANGED <<spool, lfs, store, writer, pipe, bg, reader, api, dd, seq, hist>>

\* io.Pipe: a Write whose pipe is closed on either side returns io.ErrClosedPipe
\* with the bytes transferred so far; seeing the close synchronises with it
writerWritePipeClosed ==
  /\ caller.pc = "wpipe"
  /\ pipe.rclosed \/ pipe.wclosed
  /\ caller' = [caller EXCEPT !.pc = "w319", !.perr = ErrClosedPipe]
  /\ bg' = [bg EXCEPT !.unsynced = IF pipe.rclosed THEN FALSE ELSE @]
  /\ UNCHANGED <<spool, lfs, store, writer, pipe, reader, api, obs, dd, seq, hist>>

\* writer.Write, after fd.w.Write: `if fd.err != nil { return 0, fd.err }; return n, err`
writerWriteReturn ==
  /\ caller.pc = "w319"
  /\ \E ferr \in ErrView : WriteReturn(WriteResult(caller.n, caller.perr, ferr))
  /\ UNCHANGED <<spool, lfs, store, writer, pipe, bg, reader, api, dd, seq, hist>>

\* writer.Close, entry: the stored error, or close the write side and wait
writerClose ==
  /\ caller.pc = "idle"
  /\ writer.created
  /\ caller.ops < MaxOps
  /\ \E ferr \in ErrView :
       IF ferr # NilErr
       THEN /\ obs' = [Return(obs, "Close", <<>>, 0, ferr, bg.ret = "err")
                         EXCEPT !.raced = @ \/ RacyRead, !.closeCalled = TRUE]
            /\ caller' = [caller EXCEPT !.ops = @ + 1]
            /\ pipe' = pipe
       ELSE IF writer.w /\ writer.r
       THEN /\ pipe' = [pipe EXCEPT !.wclosed = TRUE]
            /\ caller' = [caller EXCEPT !.pc = "cwait", !.op = "Close", !.ops = @ + 1,
                                        !.failedAtCall = (bg.ret = "err")]
            /\ obs' = [Enter EXCEPT !.raced = @ \/ RacyRead, !.closeCalled = TRUE]
       ELSE /\ obs' = [Return(obs, "Close", <<>>, 0, NilErr, bg.ret = "err")
                         EXCEPT !.closeCalled = TRUE]
            /\ caller' = [caller EXCEPT !.ops = @ + 1]
            /\ pipe' = pipe
  /\ UNCHANGED <<spool, lfs, store, writer, bg, reader, api, dd, seq, hist>>

\* fd.wg.Wait() returns once the goroutine has called wg.Done()
WaitNot(wg) == TRUE

Wait(wg) == wg = 0

\* writer.Close, after fd.wg.Wait(): the goroutine's error, else w.Close()'s nil
writerCloseWait ==
  /\ caller.pc = "cwait"
  /\ Wait(writer.wg)
  /\ \E ferr \in (IF writer.wg = 0 THEN {writer.err} ELSE ErrView) :
       obs' = [Return(obs, "Close", <<>>, 0, ferr, caller.failedAtCall)
                 EXCEPT !.closeNil = @ \/ ferr = NilErr]
  /\ bg' = [bg EXCEPT !.unsynced = IF writer.wg = 0 THEN FALSE ELSE @]
  /\ caller' = [caller EXCEPT !.pc = "idle"]
  /\ UNCHANGED <<spool, lfs, store, writer, pipe, reader, api, dd, seq, hist>>

\* AbortMultipartUpload of the collaborator: an upload in flight under that
\* identifier is aborted; any other identifier aborts nothing
Abort(b, id) ==
  IF b.pc = "upload" /\ b.id # "" /\ b.id = id THEN [b EXCEPT !.aborted = TRUE] ELSE b

\* writer.Cancel
writerCancel ==
  /\ caller.pc = "idle"
  /\ writer.created
  /\ caller.ops < MaxOps
  /\ \E id \in UploadView, e \in {NilErr, ErrService} :
       /\ bg' = Abort(bg, id)
       /\ obs' = [Return(obs, "Cancel", <<>>, 0, e, bg.ret = "err")
                    EXCEPT !.cancelInFlight = @ \/ (writer.w /\ bg.ret # "ok"),
                           !.abortId = id,
                           !.abortInFlight = (bg.pc = "upload")]
  /\ api' = [api EXCEPT !.abort = @ + 1]
  /\ caller' = [caller EXCEPT !.ops = @ + 1]
  /\ UNCHANGED <<spool, lfs, store, writer, pipe, reader, dd, seq, hist>>

\* writer.Stat: returns fd.info; the stream is left as it is (the call is not
\* counted in caller.ops, which bounds the calls that act on the stream)
writerStat ==
  /\ caller.pc = "idle"
  /\ writer.created
  /\ obs' = Return(obs, "WriterStat", <<>>, 0, NilErr, bg.ret = "err")
  /\ UNCHANGED <<spool, lfs, store, writer, pipe, bg, caller, reader, api, dd, seq, hist>>

\* --------------------------------------------- the goroutine and its Upload

\* what Upload has read once it reads chunk after body
Prepend(body, chunk) == chunk \o body

Consume(body, chunk) == body \o chunk

\* Upload reads its body: io.Pipe hands k bytes of the pending Write over (none of
\* an empty Write); the Write returns when all its bytes are taken
UploadRead ==
  /\ bg.pc = "upload"
  /\ caller.pc = "wpipe"
  /\ ~pipe.rclosed /\ ~pipe.wclosed
  /\ \E k \in 0 .. Len(caller.buf) :
       /\ k = 0 => caller.buf = <<>>
       /\ bg' = [bg EXCEPT !.body = Consume(@, Upto(caller.buf, k))]
       /\ caller' = [caller EXCEPT !.buf = From(@, k), !.n = @ + k,
                                   !.pc = IF k = Len(caller.buf) THEN "w319" ELSE @]
  /\ UNCHANGED <<spool, lfs, store, writer, pipe, reader, api, obs, dd, seq, hist>>

\* the error stored by the goroutine: &fs.PathError{Op: "write", Path: fd.path}
UploadError(path) == Err("PathError", "write", path)

\* Upload returns an error (at any point of the transfer) and the goroutine
\* stores it: fd.err = &fs.PathError{...}
UploadFail ==
  /\ bg.pc = "upload"
  /\ bg' = [bg EXCEPT !.pc = "rclose", !.ret = "err", !.unsynced = TRUE]
  /\ writer' = [writer EXCEPT !.err = UploadError(writer.path)]
  /\ UNCHANGED <<spool, lfs, store, pipe, caller, reader, api, obs, dd, seq, hist>>

\* Upload taking its input to be complete without reading to its end
EndOfInputUnread(p) == TRUE

\* Upload reads its body to end-of-input, which the pipe yields once its write
\* side is closed
EndOfInput(p) == p.wclosed

\* Upload reads end-of-input (the write side is closed), puts the object and
\* returns; the goroutine records the identifier: fd.upload = val.UploadID
UploadDone ==
  /\ bg.pc = "upload"
  /\ EndOfInput(pipe)
  /\ ~bg.aborted
  /\ store' = [k \in DOMAIN store \cup {s3Key(writer.path)} |->
                 IF k = s3Key(writer.path) THEN bg.body ELSE store[k]]
  /\ bg' = [bg EXCEPT !.pc = "exit", !.ret = "ok", !.unsynced = TRUE]
  /\ writer' = [writer EXCEPT !.upload = bg.id]
  /\ UNCHANGED <<spool, lfs, pipe, caller, reader, api, obs, dd, seq, hist>>

\* the goroutine leaving the read side of the pipe open after a failed Upload
goLeaveReaderOpen ==
  /\ bg.pc = "rclose"
  /\ bg' = [bg EXCEPT !.pc = "exit"]
  /\ UNCHANGED <<spool, lfs, store, writer, pipe, caller, reader, api, obs, dd, seq, hist>>

\* the goroutine, after a failed Upload: fd.r.Close()
goCloseReader ==
  /\ bg.pc = "rclose"
  /\ pipe' = [pipe EXCEPT !.rclosed = TRUE]
  /\ bg' = [bg EXCEPT !.pc = "exit"]
  /\ UNCHANGED <<spool, lfs, store, writer, caller, reader, api, obs, dd, seq, hist>>

\* the goroutine returns: defer cancel(), defer fd.wg.Done()
goDone ==
  /\ bg.pc = "exit"
  /\ writer' = [writer EXCEPT !.wg = 0]
  /\ bg' = [bg EXCEPT !.pc = "done"]
  /\ UNCHANGED <<spool, lfs, store, pipe, caller, reader, api, obs, dd, seq, hist>>

\* ------------------------------------------------------------------ reader

ErrEOF == Err("io.EOF", "", <<>>)

newReader(path) == [NoReader EXCEPT !.kind = "file", !.path = path]

\* fs.ModeDir; the zero mode is ""
ModeDir == "ModeDir"

\* info.IsDir
IsDir(info) == info.mode = ModeDir

\* FileSystem.Open giving a read stream for a directory path
openDirAsFile(path) == newReader(path)

\* openDir: the descriptor of a directory, info{path, mode: fs.ModeDir}
openDir(path) == [NoReader EXCEPT !.kind = "dir", !.path = path, !.mode = ModeDir]

\* FileSystem.Open as it would be with the object fetched eagerly
FileSystemOpenEager(path) ==
  LET e == RequireValidPath("open", path)
  IN  /\ reader' = IF e # NilErr THEN reader
                   ELSE IF IsValidDir(path) THEN openDir(path)
                   ELSE newReader(path)
      /\ obs' = [Return(obs, "Open", path, 0,
                        IF e = NilErr /\ ~IsValidDir(path) /\ s3Key(path) \notin DOMAIN store
                        THEN ErrNotExist ELSE e, FALSE)
                   EXCEPT !.read = <<>>, !.eof = FALSE]
      /\ api' = IF e = NilErr /\ ~IsValidDir(path)
                THEN [api EXCEPT !.get = @ + 1] ELSE api

\* FileSystem.Open: validates the path and builds the descriptor
FileSystemOpen(path) ==
  LET e == RequireValidPath("open", path)
  IN  /\ reader' = IF e # NilErr THEN reader
                   ELSE IF IsValidDir(path) THEN openDir(path)
                   ELSE newReader(path)
      /\ obs' = [Return(obs, "Open", path, 0, e, FALSE)
                   EXCEPT !.read = <<>>, !.eof = FALSE]
      /\ api' = api

Open(path) ==
  /\ caller.pc = "idle"
  /\ FileSystemOpen(path)
  /\ UNCHANGED <<spool, lfs, store, writer, pipe, bg, caller, dd, seq, hist>>

\* what a call of the collaborator returns: no error, an error that carries an
\* error code (ErrorCode() string), or an error without one
Got(err, coded, code) == [err |-> err, coded |-> coded, code |-> code]

GetOk == Got(FALSE, FALSE, "")

NoCall == Got(FALSE, FALSE, "none")

NoSuchKey == Got(TRUE, TRUE, "NoSuchKey")

OtherErrors == {Got(TRUE, TRUE, "NotFound"), Got(TRUE, FALSE, "")}

\* the outcomes of GetObject for a key: the object, NoSuchKey, or another failure
GetObject(key) ==
  (IF key \in DOMAIN store THEN {GetOk} ELSE {NoSuchKey}) \cup OtherErrors

\* recoverNoSuchKey testing for the code HeadObject answers with
recoverNoSuchKeyAsNotFound(e) == e.coded /\ e.code = "NotFound"

\* recoverNoSuchKey: errors.As(err, &e) && e.ErrorCode() == "NoSuchKey"
recoverNoSuchKey(e) == e.coded /\ e.code = "NoSuchKey"

\* reader.lazyOpen returning its error without calling cancel()
lazyOpenNoCancel(fd, out) ==
  IF ~out.err
  THEN <<[fd EXCEPT !.r = TRUE, !.can = TRUE, !.body = store[s3Key(fd.path)],
                    !.size = Len(store[s3Key(fd.path)]), !.opened = @ + 1], NilErr, 1>>
  ELSE IF recoverNoSuchKey(out) THEN <<fd, ErrNotExist, 1>>
  ELSE <<fd, Err("PathError", "open", fd.path), 1>>

\* reader.lazyOpen: the descriptor and the error it returns for a GetObject
\* outcome, and how many contexts of context.WithTimeout it leaves not cancelled:
\* the one kept in fd.can when it succeeds, none when it fails (cancel() is
\* called before the error is returned)
lazyOpen(fd, out) ==
  IF ~out.err
  THEN <<[fd EXCEPT !.r = TRUE, !.can = TRUE, !.body = store[s3Key(fd.path)],
                    !.size = Len(store[s3Key(fd.path)]), !.opened = @ + 1], NilErr, 1>>
  ELSE IF recoverNoSuchKey(out) THEN <<fd, ErrNotExist, 0>>
  ELSE <<fd, Err("PathError", "open", fd.path), 0>>

\* reader.Read and reader.Stat opening the object on every call
notOpenedEver(fd) == TRUE

\* reader.Read and reader.Stat, `if fd.r == nil`: the object is opened on first use
notOpened(fd) == ~fd.r

\* the history of a lazy open that succeeded: a new body is being read
Opened(o) == [o EXCEPT !.read = <<>>, !.eof = FALSE]

\* reader.Read: opens on first use, then reads up to len(b) bytes of the body
readerRead ==
  /\ caller.pc = "idle"
  /\ reader.kind = "file"
  /\ IF notOpened(reader)
     THEN /\ api.get < MaxGet
          /\ api' = [api EXCEPT !.get = @ + 1]
          /\ \E out \in GetObject(s3Key(reader.path)) :
               LET res == lazyOpen(reader, out)
               IN  IF res[2] # NilErr
                   THEN /\ reader' = res[1]
                        /\ obs' = [Return(obs, "Read", <<>>, 0, res[2], FALSE)
                                     EXCEPT !.got = out, !.ctx = @ + res[3]]
                   ELSE IF res[1].body = <<>>
                   THEN /\ reader' = res[1]
                        /\ obs' = [Return(Opened(obs), "Read", <<>>, 0, ErrEOF, FALSE)
                                     EXCEPT !.eof = TRUE, !.got = out,
                                            !.ctx = @ + res[3]]
                   ELSE \E k \in 1 .. Len(res[1].body) :
                          /\ reader' = [res[1] EXCEPT !.body = From(@, k)]
                          /\ obs' = [Return(Opened(obs), "Read", <<>>, 0, NilErr, FALSE)
                                       EXCEPT !.read = Upto(res[1].body, k), !.got = out,
                                              !.ctx = @ + res[3]]
     ELSE /\ api' = api
          /\ IF reader.body = <<>>
             THEN /\ reader' = reader
                  /\ obs' = [Return(obs, "Read", <<>>, 0, ErrEOF, FALSE)
                               EXCEPT !.eof = TRUE, !.got = NoCall]
             ELSE \E k \in 1 .. Len(reader.body) :
                    /\ reader' = [reader EXCEPT !.body = From(@, k)]
                    /\ obs' = [Return(obs, "Read", <<>>, 0, NilErr, FALSE)
                                 EXCEPT !.read = @ \o Upto(reader.body, k),
                                        !.got = NoCall]
  /\ UNCHANGED <<spool, lfs, store, writer, pipe, bg, caller, dd, seq, hist>>

\* reader.Stat: opens on first use, then returns fd.info (n is its Size())
readerStat ==
  /\ caller.pc = "idle"
  /\ reader.kind = "file"
  /\ IF notOpened(reader)
     THEN /\ api.get < MaxGet
          /\ api' = [api EXCEPT !.get = @ + 1]
          /\ \E out \in GetObject(s3Key(reader.path)) :
               LET res == lazyOpen(reader, out)
               IN  /\ reader' = res[1]
                   /\ obs' = [(IF res[2] # NilErr
                               THEN Return(obs, "Stat", <<>>, 0, res[2], FALSE)
                               ELSE Return(Opened(obs), "Stat", <<>>, res[1].size,
                                           NilErr, FALSE))
                                EXCEPT !.got = out, !.mode = res[1].mode,
                                       !.ctx = @ + res[3]]
     ELSE /\ api' = api
          /\ reader' = reader
          /\ obs' = [Return(obs, "Stat", <<>>, reader.size, NilErr, FALSE)
                       EXCEPT !.got = NoCall, !.mode = reader.mode]
  /\ UNCHANGED <<spool, lfs, store, writer, pipe, bg, caller, dd, seq, hist>>

\* the error fd.r.Close() may return
ErrBodyClose == Err("body.Close", "", <<>>)

\* reader.Close: nothing when never opened; else cancel the context, close the
\* body, return its error, and forget both (the deferred function)
readerClose ==
  /\ caller.pc = "idle"
  /\ reader.kind = "file"
  /\ IF ~reader.r
     THEN /\ reader' = reader
          /\ obs' = Return(obs, "ReaderClose", <<>>, 0, NilErr, FALSE)
     ELSE /\ reader' = [reader EXCEPT !.r = FALSE, !.can = FALSE, !.body = <<>>,
                                      !.cancelled = @ + (IF reader.can THEN 1 ELSE 0),
                                      !.released = @ + 1, !.closed = TRUE]
          /\ \E e \in {NilErr, ErrBodyClose} :
               obs' = [Return(obs, "ReaderClose", <<>>, 0, e, FALSE)
                         EXCEPT !.ctx = @ - (IF reader.can THEN 1 ELSE 0)]
  /\ UNCHANGED <<spool, lfs, store, writer, pipe, bg, caller, api, dd, seq, hist>>

\* the error of dd.Read: &fs.PathError{Op: "read", Path: dd.path,
\* Err: errors.New("is a directory")}
ErrIsDir(path) == Err("is a directory", "read", path)

\* dd.Read
ddRead ==
  /\ caller.pc = "idle"
  /\ reader.kind = "dir"
  /\ obs' = [Return(obs, "Read", <<>>, 0, ErrIsDir(reader.path), FALSE)
               EXCEPT !.got = NoCall]
  /\ UNCHANGED <<spool, lfs, store, writer, pipe, bg, caller, reader, api, dd, seq, hist>>

\* dd.Stat: returns dd.info
ddStat ==
  /\ caller.pc = "idle"
  /\ reader.kind = "dir"
  /\ obs' = [Return(obs, "Stat", <<>>, reader.size, NilErr, FALSE)
               EXCEPT !.got = NoCall, !.mode = reader.mode]
  /\ UNCHANGED <<spool, lfs, store, writer, pipe, bg, caller, reader, api, dd, seq, hist>>

\* dd.Close
ddClose ==
  /\ caller.pc = "idle"
  /\ reader.kind = "dir"
  /\ obs' = Return(obs, "ReaderClose", <<>>, 0, NilErr, FALSE)
  /\ UNCHANGED <<spool, lfs, store, writer, pipe, bg, caller, reader, api, dd, seq, hist>>

\* ------------------------------------------------- specification: write, read

WritePaths == {<<"/", "a">>, <<"a">>, <<"/", "a", "/">>}

ReadPaths == {<<"/", "a">>, <<"a">>}

EmptyStore == [k \in {} |-> <<>>]

InitWrite ==
  /\ store = EmptyStore
  /\ writer = NoWriter
  /\ pipe = NoPipe
  /\ bg = NoBg
  /\ caller = IdleCaller
  /\ reader = NoReader
  /\ api = NoApi
  /\ obs = NoObs
  /\ dd = NoDir
  /\ seq = NoSeq
  /\ hist = NoHist
  /\ spool = NoSpool
  /\ lfs = NoLfs

\* the scenarios of this specification use the stream first and read the written
\* path afterwards: reads start once the caller has used the stream and its
\* goroutine, if any, has returned, and calls on the stream come before the first
\* Open
Quiescent == bg.pc = "done" \/ (bg.pc = "none" /\ caller.ops > 0)

WritePhase == reader.kind = "none"

NextWrite ==
  \/ WritePhase /\ \E path \in WritePaths : Create(path)
  \/ WritePhase /\ \E p \in SeqsUpTo(Byte, MaxBytes) : writerWrite(p)
  \/ writerWriteCheck
  \/ writerWritePipeClosed
  \/ writerWriteReturn
  \/ WritePhase /\ writerClose
  \/ writerCloseWait
  \/ WritePhase /\ writerCancel
  \/ WritePhase /\ writerStat
  \/ UploadRead
  \/ UploadFail
  \/ UploadDone
  \/ goCloseReader
  \/ goDone
  \/ Quiescent /\ \E path \in ReadPaths : Open(path)
  \/ Quiescent /\ readerRead
  \/ Quiescent /\ readerStat

SpecWrite == InitWrite /\ [][NextWrite]_vars

\* ------------------------------------------------------ claims: write stream

\* C1: on a stream that has been written to, whenever Close has returned nil the
\* goroutine's Upload call has already returned without error.
CloseNilAfterUpload ==
  (obs.op = "Close" /\ obs.err = NilErr /\ writer.w) => bg.ret = "ok"

\* a Close that waited for the goroutine and returned nil
CloseNilAfterUploadWitness ==
  /\ obs.op = "Close" /\ obs.err = NilErr /\ writer.w
  /\ bg.ret = "ok" /\ bg.pc = "done"
  /\ Len(obs.written) > 0

\* C2: once Close has returned nil, the body Upload consumed is exactly the bytes
\* the Write calls accepted, in order, and a reader of the same key holds exactly
\* those bytes: what it has read followed by what is left is B, read-all ends with
\* B, and Stat reports len(B).
WriteThenRead ==
  obs.closeNil =>
    /\ bg.body = obs.written
    /\ (reader.kind = "file" /\ reader.r) =>
         /\ obs.read \o reader.body = obs.written
         /\ reader.size = Len(obs.written)
    /\ (obs.op = "Stat" /\ obs.err = NilErr) => obs.n = Len(obs.written)
    /\ obs.eof => obs.read = obs.written

\* two different bytes written, closed, read back to end-of-file
WriteThenReadWitness ==
  /\ obs.closeNil
  /\ Len(obs.written) = 2 /\ obs.written[1] # obs.written[2]
  /\ reader.kind = "file" /\ reader.r /\ obs.eof
  /\ obs.read = obs.written

\* C3: after Cancel on a stream that has received a Write and whose object was not
\* yet put, the object never appears under the stream's key.
CancelNeverMaterialises ==
  obs.cancelInFlight => s3Key(writer.path) \notin DOMAIN store

\* C4: a Write or Close that the caller begins after the upload has failed returns
\* the stored path-scoped write error.
UploadFailureSurfaces ==
  (obs.op \in {"Write", "Close"} /\ obs.failedAtCall) =>
    obs.err = UploadError(writer.path)

\* a Write begun after the failure went through the pipe and returned the error
UploadFailureSurfacesWitness ==
  /\ obs.op = "Write" /\ obs.failedAtCall
  /\ obs.err = UploadError(writer.path)
  /\ caller.perr = ErrClosedPipe

\* C13: no caller read of fd.err (in Write or in Close) happens after the
\* goroutine's write of it without a synchronisation event (seeing the pipe's read
\* side closed, or wg.Wait) in between.
NoConcurrentRead == ~obs.raced

\* C14: on a stream whose goroutine was started, whenever Close has returned the
\* goroutine has returned (its wg.Done has run).
CloseWaitsForTask ==
  (obs.op = "Close" /\ writer.w) => bg.pc = "done"

\* C15: Upload is invoked, and the goroutine spawned, at most once per stream.
UploadInvokedOnce == api.upload <= 1

\* a Write after a Cancel and after the failed goroutine closed the pipe's read
\* side has returned, still with the one Upload call
UploadInvokedOnceWitness ==
  /\ obs.op = "Write" /\ obs.failedAtCall
  /\ pipe.rclosed
  /\ api.abort = 1
  /\ api.upload = 1

\* C16: a Write begun after fd.err was set does not go on to the pipe write,
\* a Write or Close begun after it returns that error, and fd.err is never reset.
StoredErrorSticky ==
  /\ caller.pc = "wpipe" => ~caller.failedAtCall
  /\ (obs.op \in {"Write", "Close"} /\ obs.failedAtCall) =>
       (obs.err = writer.err /\ obs.err # NilErr)
  /\ bg.ret = "err" => writer.err # NilErr

\* the goroutine's steps and the steps of a call the caller is in are taken when
\* they can be; a failure of Upload (a remote error, the timeout) and a new call
\* of the caller need not happen
SpecWriteFair ==
  /\ SpecWrite
  /\ WF_vars(UploadRead)
  /\ WF_vars(UploadDone)
  /\ WF_vars(goCloseReader)
  /\ WF_vars(goDone)
  /\ WF_vars(writerWriteCheck)
  /\ WF_vars(writerWritePipeClosed)
  /\ WF_vars(writerWriteReturn)
  /\ WF_vars(writerCloseWait)

\* C17: once Cancel has returned on a stream whose Upload was in flight, the
\* goroutine eventually returns, whatever the caller does next.
CancelEndsTask ==
  (obs.op = "Cancel" /\ obs.abortInFlight) ~> (bg.pc = "done")

\* C18: a Cancel called while the Upload is in flight sends the identifier of
\* this stream's upload in its abort request.
CancelCarriesUploadId ==
  (obs.op = "Cancel" /\ obs.abortInFlight) => obs.abortId = bg.id

\* C19: Upload has returned without error, or the object is in the store under
\* the stream's key, only if Close has been called on the stream.
NoObjectBeforeClose ==
  (bg.ret = "ok" \/ (writer.created /\ s3Key(writer.path) \in DOMAIN store)) =>
    obs.closeCalled

\* Write, Stat and Cancel were not enough: the object appeared with the Close
\* that followed them
NoObjectBeforeCloseWitness ==
  /\ obs.op = "Close" /\ obs.closeCalled
  /\ api.abort = 1
  /\ bg.ret = "ok"
  /\ s3Key(writer.path) \in DOMAIN store
  /\ Len(obs.written) > 0

\* C32: Create issues no call, starts no goroutine and leaves the bucket as it
\* was; a Close called directly after a successful Create returns nil at once,
\* with no goroutine started, no Upload called and no object created.
CreateThenCloseIsNoOp ==
  [][ /\ (obs'.op = "Create" /\ writer'.created /\ ~writer.created) =>
           /\ api' = api /\ store' = store
           /\ bg' = bg /\ bg.pc = "none" /\ pipe' = pipe
      /\ ( /\ obs.op = "Create" /\ obs.err = NilErr
           /\ obs'.closeCalled /\ ~obs.closeCalled ) =>
           /\ obs'.op = "Close" /\ obs'.err = NilErr /\ caller'.pc = "idle"
           /\ bg' = bg /\ bg.pc = "none"
           /\ api' = api /\ api.upload = 0
           /\ store' = store /\ writer.path \notin DOMAIN store ]_vars

\* Create, then Close: nil, and nothing has happened
CreateThenCloseIsNoOpWitness ==
  /\ obs.op = "Close" /\ obs.err = NilErr /\ obs.closeCalled
  /\ writer.created /\ ~writer.w /\ ~writer.r
  /\ caller.ops = 1 /\ caller.pc = "idle"
  /\ bg = NoBg /\ api = NoApi /\ store = EmptyStore

\* the calls on the write stream and the steps of its goroutine, without the
\* reads of the written object that NextWrite lets follow
NextStream ==
  \/ \E path \in WritePaths : Create(path)
  \/ \E p \in SeqsUpTo(Byte, MaxBytes) : writerWrite(p)
  \/ writerWriteCheck
  \/ writerWritePipeClosed
  \/ writerWriteReturn
  \/ writerClose
  \/ writerCloseWait
  \/ writerCancel
  \/ UploadRead
  \/ UploadFail
  \/ UploadDone
  \/ goCloseReader
  \/ goDone

\* Upload reads its body whenever the pipe offers bytes and returns when it reads
\* end-of-input, the goroutine runs to its end, and the caller's steps inside a
\* call are taken; a failure of Upload and a new call need not happen
SpecStreamFair ==
  /\ InitWrite /\ [][NextStream]_vars
  /\ WF_vars(UploadRead)
  /\ WF_vars(UploadDone)
  /\ WF_vars(goCloseReader)
  /\ WF_vars(goDone)
  /\ WF_vars(writerWriteCheck)
  /\ WF_vars(writerWritePipeClosed)
  /\ WF_vars(writerWriteReturn)
  /\ WF_vars(writerCloseWait)

\* C37: a caller that is inside Write or Close eventually returns from it.
CallerReturns == (caller.pc # "idle") ~> (caller.pc = "idle")

\* Upload failed while a Write was waiting on the pipe: the Write has returned
CallerReturnsWitness ==
  /\ obs.op = "Write" /\ obs.err # NilErr /\ ~obs.failedAtCall
  /\ caller.pc = "idle" /\ caller.buf # <<>>
  /\ bg.ret = "err" /\ pipe.rclosed /\ ~pipe.wclosed

\* ------------------------------------------------------- specification: open

OpenKeys == {<<"a">>, <<"a", "/", "a">>}

\* the buckets a reader is opened against: any subset of the keys, two bytes each
OpenStores == {[k \in K |-> <<1, 2>>] : K \in SUBSET OpenKeys}

InitOpen ==
  /\ store \in OpenStores
  /\ writer = NoWriter
  /\ pipe = NoPipe
  /\ bg = NoBg
  /\ caller = IdleCaller
  /\ reader = NoReader
  /\ api = NoApi
  /\ obs = NoObs
  /\ dd = NoDir
  /\ seq = NoSeq
  /\ hist = NoHist
  /\ spool = NoSpool
  /\ lfs = NoLfs

OpenPaths == SeqsUpTo(Alphabet, MaxPathLen)

\* a stream is followed up to a Close that released its body, a directory up to
\* its Close: the next Open comes after it
NextOpen ==
  \/ /\ \/ reader.kind = "none"
        \/ reader.closed
        \/ reader.kind = "dir" /\ obs.op = "ReaderClose"
     /\ \E path \in OpenPaths : Open(path)
  \/ readerRead
  \/ readerStat
  \/ readerClose
  \/ ddRead
  \/ ddStat
  \/ ddClose

SpecOpen == InitOpen /\ [][NextOpen]_vars

\* ------------------------------------------------------------- claims: open

\* C10: a return from Open leaves the calls issued to the storage collaborator as
\* they were and, for a valid path, carries no error whether or not the object
\* exists; on a stream whose object is missing the first Read or Stat is the call
\* that returns the error.
OpenIssuesNoCall ==
  [][ /\ obs'.op = "Open" =>
           /\ api' = api
           /\ IsValidPath(obs'.path) => obs'.err = NilErr
      /\ ( /\ obs'.op \in {"Read", "Stat"}
           /\ reader.kind = "file" /\ ~reader.r
           /\ s3Key(reader.path) \notin DOMAIN store ) =>
           /\ api'.get = api.get + 1
           /\ obs'.err \in {ErrNotExist, Err("PathError", "open", reader.path)}
    ]_vars

\* a stream was opened on a missing object and its first Read reported it
OpenIssuesNoCallWitness ==
  /\ obs.op = "Read" /\ obs.err = ErrNotExist
  /\ reader.kind = "file" /\ ~reader.r
  /\ s3Key(reader.path) \notin DOMAIN store
  /\ api.get = 1

\* C11: a stream has closed no more bodies than it obtained, each with its
\* context cancelled; a Close on a stream that never opened changes nothing and
\* returns nil; and once a Close has closed the body every later Close on the
\* stream changes nothing and returns nil.
ReaderCloseOnce ==
  [][ obs'.op = "ReaderClose" =>
        /\ reader'.released <= reader'.opened
        /\ reader'.cancelled = reader'.released
        /\ (reader.opened = 0 \/ reader.closed) =>
             (reader' = reader /\ api' = api /\ obs'.err = NilErr)
    ]_vars

\* C12: once Close has closed the body of a stream, no later step on that stream
\* issues a get-object call or gives it a body again.
ClosedIsTerminal ==
  [][ (reader.closed /\ reader'.closed) => (api'.get = api.get /\ ~reader'.r) ]_vars

\* C21: a Read or Stat on a stream that holds a body issues no get-object call:
\* it reuses the body and the descriptor of the one call that opened it, and Stat
\* reports the size that call stored.
ReadStatOpenOnce ==
  [][ (reader.r /\ obs'.op \in {"Read", "Stat"}) =>
        /\ api'.get = api.get
        /\ obs'.got = NoCall
        /\ reader'.r /\ reader'.opened = reader.opened
        /\ reader'.size = reader.size
        /\ obs'.op = "Stat" => (obs'.err = NilErr /\ obs'.n = reader.size)
        /\ obs'.op = "Read" => obs'.read \o reader'.body = obs.read \o reader.body ]_vars

\* a Read opened the object and a Stat after it reused the descriptor
ReadStatOpenOnceWitness ==
  /\ reader.kind = "file" /\ reader.r /\ ~reader.closed
  /\ obs.op = "Stat" /\ obs.got = NoCall /\ obs.err = NilErr
  /\ obs.read # <<>> /\ obs.n = 2
  /\ api.get = 1

\* C22: Open of a valid directory path issues no call and returns a directory
\* descriptor; on it Read fails with the "is a directory" PathError of its path,
\* Stat reports a directory, and Read, Stat and Close issue no call.
DirectoryNoIO ==
  [][ /\ (obs'.op = "Open" /\ IsValidDir(obs'.path)) =>
           /\ api' = api /\ obs'.err = NilErr
           /\ reader'.kind = "dir" /\ reader'.path = obs'.path /\ IsDir(reader')
      /\ (reader.kind = "dir" /\ obs'.op \in {"Read", "Stat", "ReaderClose"}) =>
           /\ api' = api /\ store' = store
           /\ obs'.op = "Read" => (obs'.n = 0 /\ obs'.err = ErrIsDir(reader.path))
           /\ obs'.op = "Stat" => (obs'.err = NilErr /\ obs'.mode = ModeDir)
           /\ obs'.op = "ReaderClose" => obs'.err = NilErr ]_vars

\* a Read on the directory over a stored key has failed, with no call issued
DirectoryNoIOWitness ==
  /\ reader.kind = "dir" /\ reader.path = <<"a", "/">>
  /\ <<"a", "/", "a">> \in DOMAIN store
  /\ obs.op = "Read" /\ obs.err = ErrIsDir(reader.path)
  /\ api = NoApi

\* C20: when the get-object call of a Read or Stat fails, the call returns
\* fs.ErrNotExist if the remote error carries the code NoSuchKey and otherwise a
\* PathError with op "open" and the stream's path.
LazyOpenErrorClasses ==
  (obs.op \in {"Read", "Stat"} /\ obs.got.err) =>
    IF obs.got = NoSuchKey
    THEN obs.err = ErrNotExist
    ELSE obs.err = Err("PathError", "open", reader.path) /\ obs.err # ErrNotExist

\* a Read whose get-object call failed with a code other than NoSuchKey
LazyOpenErrorClassesWitness ==
  /\ obs.op = "Read" /\ obs.got.err /\ obs.got.coded /\ obs.got.code = "NotFound"
  /\ obs.err = Err("PathError", "open", reader.path)
  /\ reader.kind = "file" /\ ~reader.r

\* ------------------------------------------------------------------ listing

\* the characters of object keys, in the byte order the remote lists keys by
KeyChars == <<".", "/", "a", "b", "c">>

CharOrd(c) == CHOOSE i \in 1 .. Len(KeyChars) : KeyChars[i] = c

RECURSIVE Less(_, _)
Less(a, b) ==
  IF a = <<>> THEN b # <<>>
  ELSE IF b = <<>> THEN FALSE
  ELSE IF a[1] = b[1] THEN Less(Tail(a), Tail(b))
  ELSE CharOrd(a[1]) < CharOrd(b[1])

HasPrefix(key, prefix) ==
  Len(prefix) <= Len(key) /\ SubSeq(key, 1, Len(prefix)) = prefix

RECURSIVE SortKeys(_)
SortKeys(S) ==
  IF S = {} THEN <<>>
  ELSE LET m == CHOOSE k \in S : \A j \in S \ {k} : Less(k, j)
       IN  <<m>> \o SortKeys(S \ {m})

\* a *string: nil, or a pointer to a value
Nil == <<>>

Ptr(x) == <<x>>

Deref(p) == p[1]

\* the keys of the bucket under a prefix and after a key, in listing order
Listing(prefix, startAfter) ==
  SortKeys({k \in DOMAIN store :
              /\ HasPrefix(k, prefix)
              /\ startAfter = Nil \/ Less(Deref(startAfter), k)})

Object(k) == [Key |-> k, Size |-> Len(store[k])]

ListFailed == [err |-> TRUE, Contents |-> <<>>, KeyCount |-> 0, Token |-> FALSE]

\* the outputs ListObjectsV2 may return for a request: a failure, or the next page
\* of at most maxKeys keys. A truncated page carries NextContinuationToken; when
\* nothing is left the remote may still send one.
ListObjectsV2(prefix, startAfter, maxKeys) ==
  LET all  == Listing(prefix, startAfter)
      n    == IF Len(all) < maxKeys THEN Len(all) ELSE maxKeys
      page == [i \in 1 .. n |-> Object(all[i])]
  IN  {[err |-> FALSE, Contents |-> page, KeyCount |-> n, Token |-> t] :
         t \in IF Len(all) > maxKeys THEN {TRUE} ELSE BOOLEAN}
      \cup {ListFailed}

\* C36: a Read or Stat whose lazy open fails returns the error and leaves the
\* stream as it was: no body and no cancel function are held, size and mode are
\* those of before, and the context made for the request has been cancelled.
FailedOpenLeavesStream ==
  [][ ( /\ reader.kind = "file" /\ obs'.op \in {"Read", "Stat"}
        /\ api'.get = api.get + 1 /\ obs'.got.err ) =>
          /\ obs'.err # NilErr
          /\ reader' = reader
          /\ ~reader'.r /\ ~reader'.can /\ reader'.body = <<>>
          /\ obs'.ctx = obs.ctx ]_vars

\* the object is absent: Read has failed, nothing is held, no context is live
FailedOpenLeavesStreamWitness ==
  /\ reader.kind = "file" /\ obs.op = "Read" /\ obs.got = NoSuchKey
  /\ obs.err = ErrNotExist
  /\ ~reader.r /\ ~reader.can /\ reader.opened = 0
  /\ obs.ctx = 0 /\ api.get = 1


\* the most objects a bucket holds
MaxObjects == 3

\* the largest page size (lslimit of the file system, MaxKeys of a request) a
\* listing is configured with
MaxPage == 2

\* dd.objectToDirEntry: the path is the key from index len(dd.path)-1 on and the
\* mode is left zero; key is the key the entry was made from (history)
objectToDirEntry(d, t) ==
  [path |-> From(t.Key, Len(d.path) - 1), size |-> t.Size, mode |-> "",
   key |-> t.Key]

\* FileSystem.ReadDir up to the first listing call of dd.readAll
ReadDir(path) ==
  /\ dd.pc = "none"
  /\ LET e == RequireValidDir("readdir", path)
     IN  IF e # NilErr
         THEN /\ dd' = [dd EXCEPT !.pc = "done"]
              /\ obs' = Return(obs, "ReadDir", path, 0, e, FALSE)
         ELSE /\ dd' = [dd EXCEPT !.pc = "list", !.path = path,
                                  !.StartAfter = Nil, !.seq = <<>>]
              /\ obs' = Enter
  /\ UNCHANGED <<spool, lfs, store, writer, pipe, bg, caller, reader, api, seq, hist>>

\* readAll with every page replacing the entries collected so far
replaceEntries(entries, page) == page

\* readAll, lines 82-84: the entries of a page are appended
appendEntries(entries, page) == entries \o page

\* readAll, line 87: the loop stops on an empty page or a missing token
readAllStop(cnt, token) == cnt = 0 \/ ~token

\* readAll with the request left as it was
KeepStartAfter(startAfter, contents, cnt) == startAfter

\* readAll, line 91: the next request starts after the last key of the page
NextStartAfter(startAfter, contents, cnt) == Ptr(contents[cnt].Key)

\* one iteration of the loop of dd.readAll: a listing call and what follows it
readAll ==
  /\ dd.pc = "list"
  /\ dd.calls <= MaxObjects + 1
  /\ api' = [api EXCEPT !.list = @ + 1]
  /\ \E val \in ListObjectsV2(s3Key(dd.path), dd.StartAfter, dd.lslimit) :
       LET d == [dd EXCEPT !.calls = @ + 1,
                           !.val = [KeyCount |-> val.KeyCount, Token |-> val.Token]]
           page == [i \in 1 .. Len(val.Contents) |->
                      objectToDirEntry(dd, val.Contents[i])]
           entries == appendEntries(dd.seq, page)
       IN  IF val.err
           THEN /\ dd' = [d EXCEPT !.pc = "done", !.seq = <<>>]
                /\ obs' = Return(obs, "ReadDir", dd.path, 0,
                                 Err("PathError", "readdir", dd.path), FALSE)
           ELSE IF readAllStop(val.KeyCount, val.Token)
           THEN /\ dd' = [d EXCEPT !.pc = "done", !.seq = entries]
                /\ obs' = Return(obs, "ReadDir", dd.path, Len(entries), NilErr, FALSE)
           ELSE /\ dd' = [d EXCEPT !.seq = entries,
                                   !.StartAfter =
                                     NextStartAfter(dd.StartAfter, val.Contents,
                                                    val.KeyCount)]
                /\ obs' = obs
  /\ UNCHANGED <<spool, lfs, store, writer, pipe, bg, caller, reader, seq, hist>>

\* -------------------------------------------------- specification: directory

ListKeys == {<<"a", "/", "a">>, <<"a", "/", "b">>, <<"a", "/", "c">>, <<"b">>}

ListStores ==
  {[k \in K |-> <<1>>] : K \in {S \in SUBSET ListKeys : Cardinality(S) <= MaxObjects}}

InitDir ==
  /\ store \in ListStores
  /\ writer = NoWriter
  /\ pipe = NoPipe
  /\ bg = NoBg
  /\ caller = IdleCaller
  /\ reader = NoReader
  /\ api = NoApi
  /\ obs = NoObs
  /\ dd \in {[NoDir EXCEPT !.lslimit = n] : n \in 1 .. MaxPage}
  /\ seq = NoSeq
  /\ hist = NoHist
  /\ spool = NoSpool
  /\ lfs = NoLfs

NextDir ==
  \/ \E path \in SeqsUpTo(Alphabet, MaxPathLen) : ReadDir(path)
  \/ readAll

SpecDir == InitDir /\ [][NextDir]_vars

\* -------------------------------------------------------- claims: directory

\* the keys of the entries ReadDir collected, in order
EntryKeys == [i \in 1 .. Len(dd.seq) |-> dd.seq[i].key]

\* C5: when ReadDir returns without error, the entries are those of exactly the
\* keys stored under the prefix, each once, in the remote's listing order, for
\* every page size.
ReadDirListsAll ==
  (obs.op = "ReadDir" /\ obs.err = NilErr) =>
    /\ EntryKeys = Listing(s3Key(dd.path), Nil)
    /\ obs.n = Cardinality({k \in DOMAIN store : HasPrefix(k, s3Key(dd.path))})

\* three objects read in pages of two
ReadDirListsAllWitness ==
  /\ obs.op = "ReadDir" /\ obs.err = NilErr
  /\ Len(dd.seq) = 3 /\ dd.lslimit = 2 /\ dd.calls >= 2
  /\ EntryKeys = Listing(s3Key(dd.path), Nil)

\* C6: the loop of ReadDir issues at most one listing call more than there are
\* keys under the prefix, whatever tokens the remote sends, and is over as soon
\* as a page reports zero keys.
ReadDirTerminates ==
  dd.calls > 0 =>
    /\ dd.calls <= Len(Listing(s3Key(dd.path), Nil)) + 1
    /\ dd.val.KeyCount = 0 => dd.pc = "done"

\* a token on the last page, then an empty page that carries a token too
ReadDirTerminatesWitness ==
  /\ dd.pc = "done" /\ obs.op = "ReadDir" /\ obs.err = NilErr
  /\ dd.calls = 3 /\ Len(dd.seq) = 2
  /\ dd.val.KeyCount = 0 /\ dd.val.Token

\* C24: when ReadDir of a directory path d has returned, the name of every entry
\* is its key with the key prefix of d removed: d followed by the name is the
\* logical path of the object.
EntriesRelativeToDir ==
  (obs.op = "ReadDir" /\ obs.err = NilErr) =>
    \A i \in 1 .. Len(dd.seq) :
      /\ dd.seq[i].path = From(dd.seq[i].key, Len(s3Key(dd.path)))
      /\ s3Key(dd.path \o dd.seq[i].path) = dd.seq[i].key

\* ------------------------------------------------------------------- facade

\* longest regular expression of a Glob pattern
MaxRegexLen == 2

\* what HeadObject answers for a key that is absent
HeadNotFound == Got(TRUE, TRUE, "NotFound")

OtherHeadErrors == {Got(TRUE, TRUE, "AccessDenied"), Got(TRUE, FALSE, "")}

\* the outcomes of HeadObject for a key: the object, NotFound, or another failure
HeadObject(key) ==
  (IF key \in DOMAIN store THEN {GetOk} ELSE {HeadNotFound}) \cup OtherHeadErrors

\* recoverNotFound testing for the code GetObject answers with
recoverNotFoundAsNoSuchKey(e) == e.coded /\ e.code = "NoSuchKey"

\* recoverNotFound: errors.As(err, &e) && e.ErrorCode() == "NotFound"
recoverNotFound(e) == e.coded /\ e.code = "NotFound"

\* FileSystem.Stat, lines 152-163: the error for a failed HeadObject
StatError(out, path) ==
  IF ~out.err THEN NilErr
  ELSE IF recoverNotFound(out) THEN ErrNotExist
  ELSE Err("PathError", "stat", path)

\* FileSystem.Stat: a directory path is answered locally, a file path by HeadObject
Stat(path) ==
  /\ LET e == RequireValidPath("stat", path)
     IN  IF e # NilErr
         THEN /\ obs' = [Return(obs, "FileSystem.Stat", path, 0, e, FALSE)
                           EXCEPT !.got = NoCall, !.mode = ""]
              /\ api' = api
         ELSE IF IsValidDir(path)
         THEN /\ obs' = [Return(obs, "FileSystem.Stat", path, 0, NilErr, FALSE)
                           EXCEPT !.got = NoCall, !.mode = ModeDir]
              /\ api' = api
         ELSE /\ api' = [api EXCEPT !.head = @ + 1]
              /\ \E out \in HeadObject(s3Key(path)) :
                   obs' = [Return(obs, "FileSystem.Stat", path,
                                  IF out.err THEN 0 ELSE Len(store[s3Key(path)]),
                                  StatError(out, path), FALSE)
                             EXCEPT !.got = out, !.mode = ""]
  /\ UNCHANGED <<spool, lfs, store, writer, pipe, bg, caller, reader, dd, seq, hist>>

\* FileSystem.Remove: DeleteObject of the key; a failure is a PathError
Remove(path) ==
  /\ LET e == RequireValidFile("remove", path)
     IN  IF e # NilErr
         THEN /\ obs' = Return(obs, "Remove", path, 0, e, FALSE)
              /\ UNCHANGED <<api, store>>
         ELSE /\ api' = [api EXCEPT !.delete = @ + 1]
              /\ \/ /\ store' = [k \in DOMAIN store \ {s3Key(path)} |-> store[k]]
                    /\ obs' = Return(obs, "Remove", path, 0, NilErr, FALSE)
                 \/ /\ store' = store
                    /\ obs' = Return(obs, "Remove", path, 0,
                                     Err("PathError", "remove", path), FALSE)
  /\ UNCHANGED <<spool, lfs, writer, pipe, bg, caller, reader, dd, seq, hist>>

\* "s3://"
S3Scheme == <<"s", "3", ":", "/", "/">>

\* fsys.bucket: the bucket the file system is mounted on
bucket == <<"t">>

\* the body of the object a CopyObject request copies
CopiedBody == <<1>>

\* FileSystem.Copy: the request has Key = s3Key(source) in the mounted bucket and
\* CopySource = target[5:]; CopyObject stores the object copied under Bucket/Key
Copy(source, target) ==
  /\ LET e == RequireValidPath("copy", source)
     IN  IF e # NilErr
         THEN /\ obs' = Return(obs, "Copy", source, 0, e, FALSE)
              /\ UNCHANGED <<api, store>>
         ELSE IF ~HasPrefix(target, S3Scheme)
         THEN /\ obs' = Return(obs, "Copy", source, 0,
                               Err("s3:// prefix is required", "copy", target), FALSE)
              /\ UNCHANGED <<api, store>>
         ELSE LET req == [Bucket |-> bucket, Key |-> s3Key(source),
                          CopySource |-> From(target, 5)]
              IN  /\ api' = [api EXCEPT !.copy = @ + 1]
                  /\ \/ /\ store' = [k \in DOMAIN store \cup {req.Key} |->
                                       IF k = req.Key THEN CopiedBody ELSE store[k]]
                        /\ obs' = [Return(obs, "Copy", source, 0, NilErr, FALSE)
                                     EXCEPT !.req = req, !.target = target]
                     \/ /\ store' = store
                        /\ obs' = [Return(obs, "Copy", source, 0,
                                          Err("PathError", "copy", target), FALSE)
                                     EXCEPT !.req = req, !.target = target]
  /\ UNCHANGED <<spool, lfs, writer, pipe, bg, caller, reader, dd, seq, hist>>

\* FileSystem.Wait: the waiter polls HeadObject (one call stands for its polls)
\* until the object exists; the bucket does not change while it waits, so an
\* absent object ends in the timeout
FileSystemWait(path) ==
  /\ LET e == RequireValidFile("wait", path)
     IN  IF e # NilErr
         THEN /\ obs' = Return(obs, "Wait", path, 0, e, FALSE)
              /\ api' = api
         ELSE /\ api' = [api EXCEPT !.head = @ + 1]
              /\ \E ok \in (IF s3Key(path) \in DOMAIN store THEN BOOLEAN ELSE {FALSE}) :
                   obs' = Return(obs, "Wait", path, 0,
                                 IF ok THEN NilErr ELSE Err("PathError", "wait", path),
                                 FALSE)
  /\ UNCHANGED <<spool, lfs, store, writer, pipe, bg, caller, reader, dd, seq, hist>>

\* index (0-based) of the first "|" of pattern, Len(pattern) when there is none
RECURSIVE BarAt(_, _)
BarAt(pattern, i) ==
  IF i < Len(pattern) /\ pattern[i + 1] # "|" THEN BarAt(pattern, i + 1) ELSE i

\* strings.SplitN(pattern, "|", 2)
SplitN(pattern) ==
  LET i == BarAt(pattern, 0)
  IN  IF i = Len(pattern) THEN <<pattern>>
      ELSE <<Upto(pattern, i), From(pattern, i + 1)>>

\* the characters of the regular expressions of the patterns: a literal and the
\* escape character
RegexChars == {"a", "\\"}

\* what an escape stands for: `\\` the backslash, `\a` the bell character
Escaped(c) == IF c = "\\" THEN "\\" ELSE "BEL"

\* regexp.Compile over RegexChars: <<ok, the characters to match>>; an expression
\* that ends in the escape character is malformed (trailing backslash)
RECURSIVE Compile(_)
Compile(r) ==
  IF r = <<>> THEN <<TRUE, <<>>>>
  ELSE IF r[1] = "\\"
  THEN IF Len(r) = 1 THEN <<FALSE, <<>>>>
       ELSE LET rest == Compile(From(r, 2))
            IN  <<rest[1], <<Escaped(r[2])>> \o rest[2]>>
  ELSE LET rest == Compile(From(r, 1))
       IN  <<rest[1], <<r[1]>> \o rest[2]>>

\* Regexp.MatchString for a sequence of literals: it occurs somewhere in name
MatchString(lit, name) ==
  \E i \in 0 .. Len(name) :
    i + Len(lit) <= Len(name) /\ SubSeq(name, i + 1, i + Len(lit)) = lit

\* the error of Glob for an expression that does not compile:
\* &fs.PathError{Op: "glob", Path: pattern, Err: err} with the error of regexp
ErrGlob(pattern) == Err("regexp/syntax", "glob", pattern)

\* FileSystem.Glob up to the listing: split, compile, then ReadDir of the prefix
Glob(pattern) ==
  /\ dd.pc = "none"
  /\ LET pat == SplitN(pattern)
         reg == IF Len(pat) = 2 THEN Compile(pat[2]) ELSE <<TRUE, <<>>>>
         e   == RequireValidDir("readdir", pat[1])
     IN  IF ~reg[1]
         THEN /\ dd' = [dd EXCEPT !.pc = "done", !.pattern = pattern]
              /\ obs' = Return(obs, "Glob", pattern, 0, ErrGlob(pattern), FALSE)
         ELSE IF e # NilErr
         THEN /\ dd' = [dd EXCEPT !.pc = "done", !.pattern = pattern]
              /\ obs' = Return(obs, "Glob", pattern, 0, e, FALSE)
         ELSE /\ dd' = [dd EXCEPT !.pc = "list", !.path = pat[1], !.StartAfter = Nil,
                                  !.seq = <<>>, !.glob = TRUE, !.pattern = pattern,
                                  !.reg = IF Len(pat) = 2 THEN Ptr(reg[2]) ELSE Nil]
              /\ obs' = Enter
  /\ UNCHANGED <<spool, lfs, store, writer, pipe, bg, caller, reader, api, seq, hist>>

\* the names Glob keeps: all when there is no expression, else those it matches
GlobNames(entries, reg) ==
  LET kept == SelectSeq(entries, LAMBDA x : reg = Nil \/ MatchString(Deref(reg), x.path))
  IN  [i \in 1 .. Len(kept) |-> kept[i].path]

\* FileSystem.Glob after ReadDir has returned: its error, or the names kept
GlobReturn ==
  /\ dd.pc = "done" /\ dd.glob
  /\ LET names == IF obs.err = NilErr THEN GlobNames(dd.seq, dd.reg) ELSE <<>>
     IN  /\ dd' = [dd EXCEPT !.glob = FALSE, !.names = names]
         /\ obs' = Return(obs, "Glob", dd.pattern, Len(names), obs.err, FALSE)
  /\ UNCHANGED <<spool, lfs, store, writer, pipe, bg, caller, reader, api, seq, hist>>

\* ------------------------------------------------- specification: facade

\* the keys of the bucket: an object, an object under a prefix, and the empty
\* object some tools store for a prefix
FacadeKeys == {<<"a">>, <<"a", "/">>, <<"a", "/", "a">>}

FacadeStores == {[k \in K |-> <<1, 2>>] : K \in SUBSET FacadeKeys}

CopyTargets ==
  {S3Scheme \o <<"b", "/", "k">>, S3Scheme \o bucket \o <<"/", "k">>, <<"/", "k">>}

GlobDirs == {<<"/">>, <<"a", "/">>, <<"/", "a", "/">>, <<"a">>}

GlobPatterns ==
  GlobDirs \cup
  {d \o <<"|">> \o r : d \in GlobDirs, r \in SeqsUpTo(RegexChars, MaxRegexLen)}

InitFacade ==
  /\ store \in FacadeStores
  /\ writer = NoWriter
  /\ pipe = NoPipe
  /\ bg = NoBg
  /\ caller = IdleCaller
  /\ reader = NoReader
  /\ api = NoApi
  /\ obs = NoObs
  /\ dd \in {[NoDir EXCEPT !.lslimit = n] : n \in 1 .. MaxPage}
  /\ seq = NoSeq
  /\ hist = NoHist
  /\ spool = NoSpool
  /\ lfs = NoLfs

\* a behaviour is one call of the facade on a bucket
FacadeReady == dd.pc = "none" /\ obs.op = ""

NextFacade ==
  \/ FacadeReady /\ \E path \in OpenPaths : Open(path)
  \/ FacadeReady /\ \E path \in OpenPaths : Create(path)
  \/ FacadeReady /\ \E path \in OpenPaths : Stat(path)
  \/ FacadeReady /\ \E path \in OpenPaths : ReadDir(path)
  \/ FacadeReady /\ \E pattern \in GlobPatterns : Glob(pattern)
  \/ FacadeReady /\ \E path \in OpenPaths : Remove(path)
  \/ FacadeReady /\ \E source \in OpenPaths, target \in CopyTargets : Copy(source, target)
  \/ FacadeReady /\ \E path \in OpenPaths : FileSystemWait(path)
  \/ readAll
  \/ GlobReturn

SpecFacade == InitFacade /\ [][NextFacade]_vars

\* ---------------------------------------------------------- claims: facade

\* the paths an operation of the facade accepts: a file for Create, Remove and
\* Wait, a directory for ReadDir and for the prefix of Glob, any path for the rest
ValidFor(op, path) ==
  CASE op \in {"Create", "Remove", "Wait"} -> IsValidFile(path)
    [] op = "ReadDir" -> IsValidDir(path)
    [] op = "Glob" -> IsValidDir(SplitN(path)[1])
    [] OTHER -> IsValidPath(path)

FacadeOps ==
  {"Open", "Create", "FileSystem.Stat", "ReadDir", "Glob", "Remove", "Copy", "Wait"}

\* C23: an operation of the facade called with a path that is not valid for it
\* returns an error, issues no call to the collaborator and leaves the bucket and
\* the descriptors as they were.
ValidationBeforeIO ==
  [][ (obs'.op \in FacadeOps /\ ~ValidFor(obs'.op, obs'.path)) =>
        /\ obs'.err # NilErr
        /\ api' = api /\ store' = store
        /\ reader' = reader /\ writer' = writer ]_vars

\* Remove called with a directory path over stored keys was refused
ValidationBeforeIOWitness ==
  /\ obs.op = "Remove" /\ obs.path = <<"a", "/">>
  /\ obs.err = Err("fs.ErrInvalid", "remove", obs.path)
  /\ <<"a", "/">> \in DOMAIN store
  /\ api = NoApi

EndsWithSlash(path) == Len(path) > 0 /\ path[Len(path)] = "/"

\* C28: a descriptor is a directory exactly when its path ends with "/": the
\* entries of a listing, the info of Stat, and the descriptors of Open and Create.
DirModeIffTrailingSlash ==
  /\ (obs.op = "ReadDir" /\ obs.err = NilErr) =>
       \A i \in 1 .. Len(dd.seq) : IsDir(dd.seq[i]) <=> EndsWithSlash(dd.seq[i].path)
  /\ (obs.op = "FileSystem.Stat" /\ obs.err = NilErr) =>
       (obs.mode = ModeDir <=> EndsWithSlash(obs.path))
  /\ reader.kind # "none" => (IsDir(reader) <=> EndsWithSlash(reader.path))
  /\ writer.created => ~EndsWithSlash(writer.path)

Malformed(pattern) ==
  Len(SplitN(pattern)) = 2 /\ ~Compile(SplitN(pattern)[2])[1]

\* C30: Glob of a pattern whose expression is malformed returns the error of an
\* invalid argument (fs.ErrInvalid, as the path validation does), no names, and
\* issues no listing call.
GlobMalformedIsInvalid ==
  [][ (obs'.op = "Glob" /\ Malformed(obs'.path)) =>
        /\ obs'.err.kind = "fs.ErrInvalid"
        /\ obs'.n = 0 /\ dd'.names = <<>>
        /\ api' = api ]_vars

\* C27: for the path p given to an operation of the facade, IsValidFile(p) and
\* IsValidDir(p) are not both true, IsValidPath(p) is true exactly when one of
\* them is, a valid p ending in "/" is a directory and a valid p not ending in
\* "/" is a file; the empty path satisfies none of the three and "/" is a
\* directory and not a file.
ValidatorsPartitionPaths ==
  (obs.op \in FacadeOps \ {"Glob"}) =>
    LET p == obs.path
    IN  /\ ~(IsValidFile(p) /\ IsValidDir(p))
        /\ IsValidPath(p) <=> (IsValidFile(p) \/ IsValidDir(p))
        /\ (IsValidPath(p) /\ EndsWithSlash(p)) => IsValidDir(p)
        /\ (IsValidPath(p) /\ ~EndsWithSlash(p)) => IsValidFile(p)
        /\ p = <<>> => (~IsValidFile(p) /\ ~IsValidDir(p) /\ ~IsValidPath(p))
        /\ p = <<"/">> => (IsValidDir(p) /\ ~IsValidFile(p))

\* ReadDir, which asks IsValidDir, has listed a directory named without the
\* leading "/", a path that is valid and not a file
ValidatorsPartitionPathsWitness ==
  /\ obs.op = "ReadDir" /\ obs.err = NilErr
  /\ obs.path = <<"a", "/">>
  /\ IsValidDir(obs.path) /\ IsValidPath(obs.path) /\ ~IsValidFile(obs.path)
  /\ api.list >= 1

\* C31: the CopyObject request of Copy(source, target) names the bucket and key
\* of the target URL as its destination (Bucket, Key) and the key of the source
\* path in the mounted bucket as the object to copy from (CopySource).
CopySourceToTarget ==
  (obs.op = "Copy" /\ api.copy > 0) =>
    /\ obs.req.Bucket \o <<"/">> \o obs.req.Key = From(obs.target, 5)
    /\ obs.req.CopySource = bucket \o <<"/">> \o s3Key(obs.path)

\* ---------------------------------------------------------------------- Seq

\* the most Head and Tail calls a consumer makes on a sequence outside FMap
MaxSteps == 4

\* seq.New as Storage.Match calls it: a streaming sequence with nothing buffered
New(prefix, maxKeys) ==
  [q |-> [Prefix |-> prefix, StartAfter |-> Nil, MaxKeys |-> maxKeys],
   at |-> 0, items |-> Nil, stream |-> TRUE, err |-> NilErr]

\* seed with the cursor put on the first key of the page
seedStartAfterFirst(prev, items, token) ==
  IF ~token THEN Nil
  ELSE IF Len(items) > 0 THEN Ptr(items[1])
  ELSE prev

\* Seq.seed, lines 71-77: q.StartAfter after a page of items
seedStartAfter(prev, items, token) ==
  IF ~token THEN Nil
  ELSE IF Len(items) > 0 THEN Ptr(items[Len(items)])
  ELSE prev

\* seed that returns the error of the listing without keeping it in seq.err
seedPageErrNotKept(s, val) ==
  IF val.err THEN <<s, "io">>
  ELSE IF val.KeyCount = 0 THEN <<s, "eos">>
  ELSE LET items == [i \in 1 .. Len(val.Contents) |-> val.Contents[i].Key]
       IN  <<[s EXCEPT !.at = 0, !.items = Ptr(items),
                       !.q.StartAfter = seedStartAfter(@, items, val.Token)], "">>

\* Seq.seed, lines 55-79: the sequence and the error for an output of the listing
seedPage(s, val) ==
  IF val.err THEN <<[s EXCEPT !.err = ErrService], "io">>
  ELSE IF val.KeyCount = 0 THEN <<s, "eos">>
  ELSE LET items == [i \in 1 .. Len(val.Contents) |-> val.Contents[i].Key]
       IN  <<[s EXCEPT !.at = 0, !.items = Ptr(items),
                       !.q.StartAfter = seedStartAfter(@, items, val.Token)], "">>

\* Seq.seed: its results <<sequence, error, listing calls issued>>; the error is
\* "" for nil, "eos" for end of stream, "io" for a failed listing
seed(s) ==
  IF s.items # Nil /\ s.q.StartAfter = Nil
  THEN {<<s, "eos", 0>>}
  ELSE {<<seedPage(s, val)[1], seedPage(s, val)[2], 1>> :
          val \in ListObjectsV2(s.q.Prefix, s.q.StartAfter, s.q.MaxKeys)}

\* Seq.maybeSeed
maybeSeed(s) == IF ~s.stream THEN {<<s, "eos", 0>>} ELSE seed(s)

\* Seq.Head: its results <<sequence, error, listing calls, key>>; indexing items
\* out of range is the error "panic"
SeqHead(s) ==
  LET R == IF s.items = Nil THEN seed(s) ELSE {<<s, "", 0>>}
  IN  {IF r[2] # "" THEN <<r[1], r[2], r[3], <<>>>>
       ELSE IF r[1].at >= Len(Deref(r[1].items)) THEN <<r[1], "panic", r[3], <<>>>>
       ELSE <<r[1], "", r[3], Deref(r[1].items)[r[1].at + 1]>> : r \in R}

\* Seq.Tail: its results <<sequence, error, listing calls>>; Tail returns true
\* exactly when the error is ""
SeqTail(s) ==
  LET s1 == [s EXCEPT !.at = @ + 1]
  IN  IF s1.err # NilErr THEN {<<s1, "io", 0>>}
      ELSE IF s1.items = Nil THEN seed(s1)
      ELSE IF s1.at >= Len(Deref(s1.items)) THEN maybeSeed(s1)
      ELSE {<<s1, "", 0>>}

\* Seq.Cursor: the hash key of the cursor, empty when q.StartAfter is nil
Cursor(s) == IF s.q.StartAfter # Nil THEN Deref(s.q.StartAfter) ELSE <<>>

\* Seq.Error
Error(s) == s.err

\* Storage.Match: a new sequence over a prefix; maxKeys stands for the page size
\* of the request (1000 in the code), kept small so that listings span pages.
\* A second sequence is made once
\* FMap over the first has returned and the consumer has saved its cursor; what
\* the first did is kept in hist.prev.
Match(prefix, maxKeys) ==
  /\ hist.phase = "none" \/ (hist.phase = "done" /\ hist.run = 1 /\ hist.op = "Cursor")
  /\ seq' = New(prefix, maxKeys)
  /\ hist' = [NoHist EXCEPT !.phase = "new", !.run = hist.run + 1, !.op = "Match",
                            !.saved = hist.saved,
                            !.prev = IF hist.phase = "none" THEN NoPrev
                                     ELSE [bounded |-> hist.bounded, err |-> hist.err,
                                           prefix |-> seq.q.Prefix,
                                           k |-> seq.q.MaxKeys, out |-> hist.out]]
  /\ UNCHANGED <<spool, lfs, store, writer, pipe, bg, caller, reader, api, obs, dd>>

\* Seq.Limit, called before the iteration starts
Limit(n) ==
  /\ hist.phase = "new" /\ ~hist.bounded
  /\ seq' = [seq EXCEPT !.q.MaxKeys = n, !.stream = FALSE]
  /\ hist' = [hist EXCEPT !.bounded = TRUE, !.op = "Limit"]
  /\ UNCHANGED <<spool, lfs, store, writer, pipe, bg, caller, reader, api, obs, dd>>

\* Seq.Continue with the cursor the consumer has saved
Continue ==
  /\ hist.phase = "new" /\ hist.op # "Continue"
  /\ seq' = IF hist.saved # <<>> THEN [seq EXCEPT !.q.StartAfter = Ptr(hist.saved)]
            ELSE seq
  /\ hist' = [hist EXCEPT !.continued = hist.saved # <<>>, !.op = "Continue"]
  /\ UNCHANGED <<spool, lfs, store, writer, pipe, bg, caller, reader, api, obs, dd>>

\* the consumer calls Cursor when FMap has returned and saves what it returns
CallCursor ==
  /\ hist.phase = "done" /\ hist.op = "FMap"
  /\ hist' = [hist EXCEPT !.saved = Cursor(seq), !.op = "Cursor"]
  /\ UNCHANGED <<spool, lfs, store, writer, pipe, bg, caller, reader, api, obs, dd, seq>>

\* the consumer calls Tail
CallTail ==
  /\ hist.phase \in {"new", "free"}
  /\ hist.steps < MaxSteps
  /\ \E t \in SeqTail(seq) :
       /\ seq' = t[1]
       /\ hist' = [hist EXCEPT !.phase = "free", !.steps = @ + 1, !.op = "Tail",
                               !.ret = (t[2] = ""), !.err = t[2],
                               !.calls = @ + t[3], !.eos = @ \/ t[2] = "eos"]
       /\ api' = [api EXCEPT !.list = @ + t[3]]
  /\ UNCHANGED <<spool, lfs, store, writer, pipe, bg, caller, reader, obs, dd>>

\* the consumer calls Head; a panic ends the use of the sequence
CallHead ==
  /\ hist.phase \in {"new", "free"}
  /\ hist.steps < MaxSteps
  /\ \E h \in SeqHead(seq) :
       /\ seq' = h[1]
       /\ hist' = [hist EXCEPT !.phase = IF h[2] = "panic" THEN "crashed" ELSE "free",
                               !.steps = @ + 1, !.op = "Head",
                               !.ret = (h[2] = ""), !.err = h[2],
                               !.calls = @ + h[3]]
       /\ api' = [api EXCEPT !.list = @ + h[3]]
  /\ UNCHANGED <<spool, lfs, store, writer, pipe, bg, caller, reader, obs, dd>>

\* one iteration of the loop of Seq[T].FMap: Tail, then Head with the fetch of the
\* object, then f on the key; hist.out is the keys f received, hist.err what FMap
\* returned
FMap ==
  /\ hist.phase \in {"new", "fmap"}
  /\ \E t \in SeqTail(seq) :
       IF t[2] # ""
       THEN /\ seq' = t[1]
            /\ hist' = [hist EXCEPT !.phase = "done", !.op = "FMap", !.ret = FALSE,
                                    !.err = IF t[1].err # NilErr THEN "io" ELSE "",
                                    !.calls = @ + t[3], !.eos = @ \/ t[2] = "eos"]
            /\ api' = [api EXCEPT !.list = @ + t[3]]
       ELSE \E h \in SeqHead(t[1]) :
              \E g \in IF h[2] = "" THEN GetObject(h[4]) ELSE {NoCall} :
                /\ seq' = h[1]
                /\ hist' = [hist EXCEPT
                              !.phase = IF h[2] = "" /\ g = GetOk THEN "fmap" ELSE "done",
                              !.op = "FMap", !.ret = TRUE,
                              !.err = IF h[2] # "" THEN h[2]
                                      ELSE IF g # GetOk THEN "io" ELSE "",
                              !.calls = @ + t[3] + h[3],
                              !.out = IF h[2] = "" /\ g = GetOk THEN Append(@, h[4]) ELSE @]
                /\ api' = [api EXCEPT !.list = @ + t[3] + h[3],
                                      !.get = @ + (IF g = NoCall THEN 0 ELSE 1)]
  /\ UNCHANGED <<spool, lfs, store, writer, pipe, bg, caller, reader, obs, dd>>

\* ------------------------------------------------------- specification: Seq

SeqPrefixes == {<<>>, <<"a", "/">>}

InitSeq ==
  /\ store \in ListStores
  /\ writer = NoWriter
  /\ pipe = NoPipe
  /\ bg = NoBg
  /\ caller = IdleCaller
  /\ reader = NoReader
  /\ api = NoApi
  /\ obs = NoObs
  /\ dd = NoDir
  /\ seq = NoSeq
  /\ hist = NoHist
  /\ spool = NoSpool
  /\ lfs = NoLfs

NextSeq ==
  \/ \E prefix \in SeqPrefixes, n \in 1 .. MaxPage : Match(prefix, n)
  \/ \E n \in 1 .. MaxPage : Limit(n)
  \/ Continue
  \/ CallCursor
  \/ CallTail
  \/ CallHead
  \/ FMap

SpecSeq == InitSeq /\ [][NextSeq]_vars

\* -------------------------------------------------------------- claims: Seq

\* C7: a sequence on which Limit was called before the iteration has issued at
\* most one listing call, whatever Head and Tail calls followed.
BoundedListsOnce == hist.bounded => hist.calls <= 1

\* C8: when FMap over a sequence limited to k has returned nil and the listing
\* holds more than k keys, f received exactly the first k keys and Cursor() is not
\* empty; when FMap over a second, streaming sequence of the same prefix continued
\* from that cursor has returned nil, the keys of the two runs together are the
\* listing.
LimitThenContinue ==
  (hist.phase = "done" /\ hist.err = "") =>
    /\ ( /\ hist.run = 1 /\ hist.bounded
         /\ Len(Listing(seq.q.Prefix, Nil)) > seq.q.MaxKeys ) =>
           /\ hist.out = Upto(Listing(seq.q.Prefix, Nil), seq.q.MaxKeys)
           /\ Cursor(seq) # <<>>
    /\ ( /\ hist.run = 2 /\ ~hist.bounded /\ hist.continued
         /\ hist.prev.bounded /\ hist.prev.err = ""
         /\ hist.prev.prefix = seq.q.Prefix
         /\ Len(Listing(seq.q.Prefix, Nil)) > hist.prev.k ) =>
           hist.prev.out \o hist.out = Listing(seq.q.Prefix, Nil)

\* three keys: the first run was limited to one, the second yielded the other two
LimitThenContinueWitness ==
  /\ hist.phase = "done" /\ hist.err = ""
  /\ hist.run = 2 /\ ~hist.bounded /\ hist.continued
  /\ hist.prev.bounded /\ hist.prev.err = ""
  /\ hist.prev.prefix = seq.q.Prefix
  /\ Len(hist.prev.out) = 1 /\ Len(hist.out) = 2
  /\ hist.prev.out \o hist.out = Listing(seq.q.Prefix, Nil)

\* C9: once Tail has returned false at the end of the stream, every later Tail
\* returns false and issues no listing call.
TailStickyEndOfStream ==
  [][ (hist.eos /\ hist'.op = "Tail" /\ hist'.steps = hist.steps + 1) =>
        (~hist'.ret /\ api'.list = api.list) ]_vars

\* C25: once a page of keys is buffered, Cursor() is the last key of that page,
\* whether or not the listing has a further page; Cursor() is empty while no page
\* is buffered and no cursor was given to Continue.
CursorIsLastSeenKey ==
  /\ (seq.items # Nil /\ Len(Deref(seq.items)) > 0) =>
       Cursor(seq) = Deref(seq.items)[Len(Deref(seq.items))]
  /\ (seq.items = Nil /\ ~hist.continued) => Cursor(seq) = <<>>

\* a first, streaming sequence that was not continued from a saved cursor, which
\* the consumer reads with FMap
StreamingFMap ==
  /\ hist.run = 1 /\ ~hist.bounded /\ ~hist.continued
  /\ hist.phase \in {"fmap", "done"}

\* C26: FMap over a streaming sequence hands f the keys under the prefix in
\* listing order, each once: at every iteration the keys handed so far are the
\* first keys of the listing, Head never indexes outside the page, and when FMap
\* has returned nil they are the whole listing, whatever the page size.
StreamingVisitsEveryKeyOnce ==
  StreamingFMap =>
    /\ Len(hist.out) <= Len(Listing(seq.q.Prefix, Nil))
    /\ hist.out = Upto(Listing(seq.q.Prefix, Nil), Len(hist.out))
    /\ hist.err # "panic"
    /\ (hist.phase = "done" /\ hist.err = "") =>
         hist.out = Listing(seq.q.Prefix, Nil)

\* three keys under the prefix, listed one per page, all handed to f
StreamingVisitsEveryKeyOnceWitness ==
  /\ StreamingFMap /\ hist.phase = "done" /\ hist.err = ""
  /\ seq.q.MaxKeys = 1 /\ hist.calls >= 3
  /\ Len(hist.out) = 3
  /\ hist.out = Listing(seq.q.Prefix, Nil)

\* C35: a failed listing call is kept: the call that met it reports an error,
\* Error() returns it from then on, every later Tail returns false and issues no
\* listing call, and an FMap that ends on it returns an error, not nil.
ListingErrorIsTerminal ==
  [][ /\ (hist'.run = hist.run /\ hist'.err = "io" /\ hist'.op \in {"Tail", "Head"}) =>
           Error(seq') # NilErr
      /\ (hist'.run = hist.run /\ Error(seq) # NilErr) => Error(seq') = Error(seq)
      /\ (Error(seq) # NilErr /\ hist'.op = "Tail" /\ hist'.steps = hist.steps + 1) =>
           (~hist'.ret /\ api'.list = api.list)
      /\ (hist'.op = "FMap" /\ hist'.phase = "done" /\ hist.phase # "done"
            /\ Error(seq') # NilErr) => hist'.err = "io" ]_vars

\* the first listing call failed; a later Tail has returned false without a call
ListingErrorIsTerminalWitness ==
  /\ hist.op = "Tail" /\ ~hist.ret /\ hist.steps >= 2
  /\ Error(seq) # NilErr /\ hist.calls = 1 /\ api.list = 1

\* C39: every Head call returns a key of the buffered page or an error; it never
\* indexes the page outside its bounds.
HeadWithinPage ==
  hist.op = "Head" =>
    /\ hist.err # "panic"
    /\ hist.ret => (seq.items # Nil /\ seq.at < Len(Deref(seq.items)))

\* -------------------------------------------------------------------- spool

\* the most paths in the list given to ForEachPath
MaxPaths == 2

\* spool.New with the options IsMutable/IsImmutable, WithStrict/WithSkipError and
\* WithPattern, over a reader file system holding files and an empty writer
NewSpool(files, mut, str, pattern) ==
  [NoSpool EXCEPT !.reader = files, !.mutable = mut, !.strict = str,
                  !.pattern = pattern]

\* Spool.iserr: "" is nil
iserr(str, err) == IF str = skiperror THEN "" ELSE err

\* the output path of a source; spool.ext is empty in the spools of this model
targetOf(path) == path

\* ForEach and ForEachPath, lines 118-125 and 153-160: the pattern is compiled
\* when it is not empty, and its error is returned; else the run iterates over
\* paths
compilePattern(s, kind, paths) ==
  IF Len(s.pattern) > 0 /\ ~Compile(s.pattern)[1]
  THEN [s EXCEPT !.pc = "done", !.kind = kind, !.paths = paths, !.ret = "regexp"]
  ELSE [s EXCEPT !.pc = "next", !.kind = kind, !.paths = paths,
                 !.re = IF Len(s.pattern) > 0 THEN Ptr(Compile(s.pattern)[2]) ELSE Nil]

\* Spool.ForEach: fs.WalkDir calls the function with the files of the reader in
\* lexical order (directories are passed over at line 133)
ForEach ==
  /\ spool.pc = "none"
  /\ spool' = compilePattern(spool, "ForEach", SortKeys(spool.reader))
  /\ UNCHANGED <<store, writer, pipe, bg, caller, reader, api, obs, dd, seq, hist, lfs>>

\* Spool.ForEachPath
ForEachPath(paths) ==
  /\ spool.pc = "none"
  /\ spool' = compilePattern(spool, "ForEachPath", paths)
  /\ UNCHANGED <<store, writer, pipe, bg, caller, reader, api, obs, dd, seq, hist, lfs>>

\* the function given to WalkDir (lines 137-145) and the head of the loop of
\* ForEachPath (lines 162-165) for the next path: in ForEach a path that does not
\* match is passed over, in ForEachPath it makes the call return nil
nextPath ==
  /\ spool.pc = "next"
  /\ IF spool.at >= Len(spool.paths)
     THEN spool' = [spool EXCEPT !.pc = "done", !.ret = ""]
     ELSE LET path == spool.paths[spool.at + 1]
          IN  IF spool.re # Nil /\ ~MatchString(Deref(spool.re), path)
              THEN IF spool.kind = "ForEach"
                   THEN spool' = [spool EXCEPT !.at = @ + 1]
                   ELSE spool' = [spool EXCEPT !.pc = "done", !.ret = ""]
              ELSE spool' = [spool EXCEPT !.pc = "open", !.path = path, !.rerr = ""]
  /\ UNCHANGED <<store, writer, pipe, bg, caller, reader, api, obs, dd, seq, hist, lfs>>

\* apply has returned err to its caller, which returns it when it is not nil
\* (lines 141-143, 167-169) and goes on to the next path otherwise
applyReturn(s, err) ==
  IF err # "" THEN [s EXCEPT !.pc = "done", !.ret = err]
  ELSE [s EXCEPT !.pc = "next", !.at = @ + 1]

\* Spool.apply, lines 177-181: Open on the reader; it fails for a path that is
\* not there and may fail for one that is
applyOpen ==
  /\ spool.pc = "open"
  /\ \E ok \in (IF spool.path \in spool.reader THEN BOOLEAN ELSE {FALSE}) :
       IF ok THEN spool' = [spool EXCEPT !.pc = "create"]
       ELSE spool' = applyReturn([spool EXCEPT !.failed = @ \cup {"open"}],
                                 iserr(spool.strict, "open"))
  /\ UNCHANGED <<store, writer, pipe, bg, caller, reader, api, obs, dd, seq, hist, lfs>>

\* Spool.apply, lines 188-198: Create on the writer; its error is returned as it is
applyCreate ==
  /\ spool.pc = "create"
  /\ \E ok \in BOOLEAN :
       IF ok THEN spool' = [spool EXCEPT !.pc = "f"]
       ELSE spool' = applyReturn([spool EXCEPT !.failed = @ \cup {"create"}], "create")
  /\ UNCHANGED <<store, writer, pipe, bg, caller, reader, api, obs, dd, seq, hist, lfs>>

\* Spool.apply, lines 200-205: the spool function; rerr is what apply returns
\* unless the deferred Close replaces it
applyF ==
  /\ spool.pc = "f"
  /\ \E ok \in BOOLEAN :
       IF ok
       THEN spool' = [spool EXCEPT !.applied = Append(@, spool.path), !.rerr = "",
                                   !.pc = IF spool.mutable = mutable
                                          THEN "remove" ELSE "close"]
       ELSE spool' = [spool EXCEPT !.applied = Append(@, spool.path),
                                   !.failed = @ \cup {"f"},
                                   !.rerr = iserr(spool.strict, "f"), !.pc = "close"]
  /\ UNCHANGED <<store, writer, pipe, bg, caller, reader, api, obs, dd, seq, hist, lfs>>

\* Spool.apply, lines 205-212: Remove of the source on the reader
applyRemove ==
  /\ spool.pc = "remove"
  /\ \E ok \in BOOLEAN :
       IF ok
       THEN spool' = [spool EXCEPT !.reader = @ \ {spool.path},
                                   !.removed = @ \cup {spool.path},
                                   !.rerr = "", !.pc = "close"]
       ELSE spool' = [spool EXCEPT !.failed = @ \cup {"remove"},
                                   !.rerr = iserr(spool.strict, "remove"),
                                   !.pc = "close"]
  /\ UNCHANGED <<store, writer, pipe, bg, caller, reader, api, obs, dd, seq, hist, lfs>>

\* Spool.apply, lines 192-198: the deferred function runs when apply returns; a
\* Close that returns nil commits the output, a failing one is followed by Cancel
\* and its error is what apply returns
applyClose ==
  /\ spool.pc = "close"
  /\ \E ok \in BOOLEAN :
       IF ok
       THEN spool' = applyReturn([spool EXCEPT !.writer = @ \cup {targetOf(spool.path)}],
                                 spool.rerr)
       ELSE spool' = applyReturn([spool EXCEPT !.failed = @ \cup {"close"},
                                               !.rerr = "close"], "close")
  /\ UNCHANGED <<store, writer, pipe, bg, caller, reader, api, obs, dd, seq, hist, lfs>>

\* ----------------------------------------------------- specification: spool

SpoolFiles == {<<"a">>, <<"a", "b">>, <<"b">>}

SpoolPatterns == {<<>>, <<"a">>, <<"\\">>}

InitSpool ==
  /\ store = EmptyStore
  /\ writer = NoWriter
  /\ pipe = NoPipe
  /\ bg = NoBg
  /\ caller = IdleCaller
  /\ reader = NoReader
  /\ api = NoApi
  /\ obs = NoObs
  /\ dd = NoDir
  /\ seq = NoSeq
  /\ hist = NoHist
  /\ lfs = NoLfs
  /\ \E files \in SUBSET SpoolFiles, mut \in {immutable, mutable},
        str \in {strict, skiperror}, pattern \in SpoolPatterns :
       spool = NewSpool(files, mut, str, pattern)

NextSpool ==
  \/ ForEach
  \/ \E paths \in SeqsUpTo(SpoolFiles, MaxPaths) : ForEachPath(paths)
  \/ nextPath
  \/ applyOpen
  \/ applyCreate
  \/ applyF
  \/ applyRemove
  \/ applyClose

SpecSpool == InitSpool /\ [][NextSpool]_vars

\* ------------------------------------------------------------ claims: spool

\* C33: a ForEach of a spool made WithSkipError in which Open, Create, the spool
\* function, the Close of the output or Remove has failed returns nil and has
\* gone through every file.
SkipErrorNeverAborts ==
  ( /\ spool.pc = "done" /\ spool.kind = "ForEach"
    /\ spool.strict = skiperror /\ spool.failed # {} ) =>
      /\ spool.ret = ""
      /\ spool.at = Len(spool.paths)

\* C34: a ForEachPath in which nothing failed has called the spool function with
\* the paths of the list that match the pattern, all of them and in the order of
\* the list, whether or not paths that do not match stand between them.
ForEachPathAppliesToMatching ==
  ( /\ spool.pc = "done" /\ spool.kind = "ForEachPath"
    /\ spool.ret = "" /\ spool.failed = {} ) =>
      spool.applied =
        SelectSeq(spool.paths,
                  LAMBDA path : spool.re = Nil \/ MatchString(Deref(spool.re), path))

\* C38: in a mutable spool every source that has been removed from the reader has
\* its output on the writer, closed with a Close that returned nil.
RemoveAfterCommit ==
  spool.mutable = mutable =>
    \A path \in spool.removed : targetOf(path) \in spool.writer

\* ------------------------------------------------------- local file system

\* strings.Trim(s, "/")
RECURSIVE stringsTrim(_)
stringsTrim(s) ==
  IF s # <<>> /\ s[1] = "/" THEN stringsTrim(From(s, 1))
  ELSE IF s # <<>> /\ s[Len(s)] = "/" THEN stringsTrim(Upto(s, Len(s) - 1))
  ELSE s

\* lfs trim: the name of a path inside the root
trim(path) == IF path = <<"/">> THEN <<".">> ELSE stringsTrim(path)

\* lfs Copy, line 209, `defer func() { err = w.Close() }()`: the named result
\* after the deferred function has run, for the value err the return statement
\* gave it and the error closeErr of w.Close()
deferredClose(err, closeErr) == closeErr

\* errors of the operating system
ErrOs(op, path) == Err("os", op, path)

\* lfs FileSystem.Copy: the two paths are validated, the source opened, the
\* target created and the bytes copied; Open fails for an absent source, and
\* Open, osCreate, io.Copy and the Close of the target may each fail
lfsCopy(source, target) ==
  /\ lfs.op = ""
  /\ LET e1 == RequireValidFile("copy", source)
         e2 == RequireValidFile("copy", target)
         done(err) == [lfs EXCEPT !.op = "Copy", !.source = source,
                                  !.target = target, !.err = err]
     IN  IF e1 # NilErr THEN lfs' = done(e1)
         ELSE IF e2 # NilErr THEN lfs' = done(e2)
         ELSE \E opened \in (IF trim(source) \in lfs.files THEN BOOLEAN ELSE {FALSE}),
                 created, copied, closed \in BOOLEAN :
                IF ~opened THEN lfs' = done(ErrOs("open", source))
                ELSE IF ~created THEN lfs' = done(ErrOs("copy", target))
                ELSE LET err == IF copied THEN NilErr ELSE Err("PathError", "copy", target)
                         closeErr == IF closed THEN NilErr ELSE ErrOs("close", target)
                     IN  lfs' = [done(deferredClose(err, closeErr))
                                   EXCEPT !.files = @ \cup {target},
                                          !.copyFailed = ~copied,
                                          !.closeFailed = ~closed]
  /\ UNCHANGED <<store, writer, pipe, bg, caller, reader, api, obs, dd, seq, hist, spool>>

\* ---------------------------------------- specification: local file system

LfsFiles == {<<"a">>, <<"a", "/", "a">>}

InitLfs ==
  /\ store = EmptyStore
  /\ writer = NoWriter
  /\ pipe = NoPipe
  /\ bg = NoBg
  /\ caller = IdleCaller
  /\ reader = NoReader
  /\ api = NoApi
  /\ obs = NoObs
  /\ dd = NoDir
  /\ seq = NoSeq
  /\ hist = NoHist
  /\ spool = NoSpool
  /\ \E files \in SUBSET LfsFiles : lfs = [NoLfs EXCEPT !.files = files]

NextLfs == \E source, target \in OpenPaths : lfsCopy(source, target)

SpecLfs == InitLfs /\ [][NextLfs]_vars

\* ----------------------------------------------- claims: local file system

\* C40: a Copy in which copying the bytes from the source to the target failed
\* returns an error, whatever the Close of the target returned.
CopyFailureIsReturned ==
  (lfs.op = "Copy" /\ lfs.copyFailed) => lfs.err # NilErr

====
